---------------------------- MODULE Spec2Model ----------------------------
(***************************************************************************)
(* Lot-accounting engine of the Tastytrade tax tracker (app.py):           *)
(* the realized-gains FIFO matcher, the open-lot pass of the unrealized    *)
(* valuator, the dividend allocator, the exchange-rate lookup and the      *)
(* price resolution chain with its process-wide price cache.               *)
(*                                                                         *)
(* Numbers.  Python floats are modelled as exact rationals <<n, d>> in     *)
(* lowest terms with d > 0; a NULL number is the empty tuple.              *)
(*                                                                         *)
(* Dates.  The Date column is an ISO-8601 text timestamp and every         *)
(* comparison the code makes on it is a text comparison.  A timestamp is   *)
(* modelled as an integer that is order-isomorphic to the text; DayOf is   *)
(* the 10-character prefix (date[:10]) and YearOf the 4-character prefix   *)
(* (substr(Date, 1, 4)).                                                   *)
(***************************************************************************)
EXTENDS Integers, Sequences, FiniteSets, TLC

----------------------------------------------------------------------------
(* Bounds of the model *)

\* number of rows in the transactions table
MaxTrans == 3

\* last calendar day of the exchange-rate table (days 0..MaxDay)
MaxDay == 4

\* number of times the wall clock advances in the long-running process
MaxClock == 3

\* rows of a table of the realized-gains specification
MaxGainRows == 4
\* entries stored in the price cache by concurrent requests
MaxWrites == 2

----------------------------------------------------------------------------
(* Rational arithmetic (Python float arithmetic, without rounding error) *)

\* Python None in a text column or argument
None == "None"

RECURSIVE Gcd(_, _)
Gcd(a, b) == IF b = 0 THEN a ELSE Gcd(b, a % b)

IAbs(i) == IF i < 0 THEN -i ELSE i

Q(n, d) ==
    LET s == IF d < 0 THEN -1 ELSE 1
        g == Gcd(IAbs(n), IAbs(d))
    IN  <<(s * n) \div g, (s * d) \div g>>

QI(i) == <<i, 1>>
QZero == <<0, 1>>
QOne == <<1, 1>>
QAdd(x, y) == Q(x[1] * y[2] + y[1] * x[2], x[2] * y[2])
QSub(x, y) == Q(x[1] * y[2] - y[1] * x[2], x[2] * y[2])
QMul(x, y) == Q(x[1] * y[1], x[2] * y[2])
QDiv(x, y) == Q(x[1] * y[2], x[2] * y[1])
QAbs(x) == <<IAbs(x[1]), x[2]>>
QLt(x, y) == x[1] * y[2] < y[1] * x[2]
QLe(x, y) == x[1] * y[2] <= y[1] * x[2]
QGt(x, y) == QLt(y, x)

RECURSIVE QSum(_)
QSum(s) == IF s = <<>> THEN QZero ELSE QAdd(Head(s), QSum(Tail(s)))

\* SQL NULL / Python None in a numeric column or field
Null == <<>>

\* Python's `x or 0` on a nullable number
OrZero(x) == IF x = Null \/ x = QZero THEN QZero ELSE x

----------------------------------------------------------------------------
(* Dates *)

\* date[:10]: two timestamps per calendar day
DayOf(ts) == (ts + 1) \div 2

\* substr(Date, 1, 4): day 1 is the last day of 2023, later days are in 2024
YearOf(ts) == IF DayOf(ts) <= 1 THEN "2023" ELSE "2024"

Years == {"2023", "2024"}

----------------------------------------------------------------------------
(* The transactions table *)

Symbols == {"A", "B", "C"}

\* Asset_Category is a pre-computed attribute of each row
CategoryOf(sym) == IF sym = "A" THEN "Stock" ELSE IF sym = "B" THEN "Option" ELSE "ETF"

\* Average_Price of a trade: A rises over time, B falls
PriceAt(sym, ts) == IF sym = "A" THEN QI(10 + 2 * ts) ELSE QI(20 - 2 * ts)

\* a Trade row; a NULL Quantity comes with a NULL Total
TradeRow(ts, sym, action, qty) ==
    [Date |-> ts, Type |-> "Trade", Sub_Type |-> None, Symbol |-> sym,
     Action |-> action, Quantity |-> qty,
     Average_Price |-> PriceAt(sym, ts),
     Total |-> IF qty = Null THEN Null
               ELSE IF action \in {"BUY_TO_OPEN", "BUY_TO_CLOSE", "BUY"}
                    THEN QSub(QZero, QMul(qty, PriceAt(sym, ts)))
                    ELSE QMul(qty, PriceAt(sym, ts)),
     Value |-> Null, Fees |-> QI(-1), Commissions |-> Null,
     Asset_Category |-> CategoryOf(sym)]

\* a Money Movement row: a cash event of signed value
CashRow(ts, sym, sub_type, value) ==
    [Date |-> ts, Type |-> "Money Movement", Sub_Type |-> sub_type, Symbol |-> sym,
     Action |-> None, Quantity |-> Null, Average_Price |-> Null,
     Total |-> value, Value |-> value, Fees |-> Null, Commissions |-> Null,
     Asset_Category |-> CategoryOf(sym)]

\* the kinds of row the table is filled with: a long stock position in A
\* with a dividend, and a short option position in B
TxKinds ==
    {<<"Trade", "A", "BUY_TO_OPEN", QI(1)>>, <<"Trade", "A", "BUY_TO_OPEN", QI(2)>>,
     <<"Trade", "A", "BUY_TO_OPEN", Null>>,
     <<"Trade", "A", "SELL_TO_CLOSE", QI(1)>>, <<"Trade", "A", "SELL_TO_CLOSE", QI(2)>>,
     <<"Trade", "B", "SELL_TO_OPEN", QI(1)>>, <<"Trade", "B", "BUY_TO_CLOSE", QI(2)>>,
     <<"Money Movement", "A", "Dividend", QI(6)>>}

RowOf(ts, k) ==
    IF k[1] = "Trade" THEN TradeRow(ts, k[2], k[3], k[4]) ELSE CashRow(ts, k[2], k[3], k[4])

\* every table of at most MaxTrans rows, in ascending Date order
Stores ==
    UNION {{[i \in 1..n |-> RowOf(i, k[i])] : k \in [1..n -> TxKinds]} : n \in 0..MaxTrans}

----------------------------------------------------------------------------
(* Query and grouping of calculate_realized_gains_losses *)

\* datetime.now().year
CurrentYear == "2024"

\* the WHERE clause built by _build_gains_query_conditions
build_gains_query_conditions(symbol, year, row) ==
    /\ row.Type \in {"Trade", "Receive Deliver"}
    /\ (symbol # None => row.Symbol = symbol)
    /\ IF year # None /\ year # "ytd" THEN YearOf(row.Date) = year
       ELSE IF year = "ytd" THEN YearOf(row.Date) = CurrentYear
       ELSE TRUE

\* SELECT ... WHERE conditions ORDER BY Date ASC
GainsQuery(table, symbol, year) ==
    SelectSeq(table, LAMBDA row : build_gains_query_conditions(symbol, year, row))

\* the 'buys' entry appended for an opening row
BuyEntry(row) ==
    [date |-> row.Date,
     quantity |-> QAbs(OrZero(row.Quantity)),
     price |-> QAbs(OrZero(row.Average_Price)),
     total_cost |-> QAbs(OrZero(row.Total)),
     fees |-> QAdd(QAbs(OrZero(row.Fees)), QAbs(OrZero(row.Commissions))),
     asset_category |-> row.Asset_Category]

\* the 'sells' entry appended for a closing row
SellEntry(row) ==
    [date |-> row.Date,
     quantity |-> QAbs(OrZero(row.Quantity)),
     price |-> QAbs(OrZero(row.Average_Price)),
     total_proceeds |-> QAbs(OrZero(row.Total)),
     fees |-> QAdd(QAbs(OrZero(row.Fees)), QAbs(OrZero(row.Commissions))),
     asset_category |-> row.Asset_Category]

\* index of the entry of symbol key in an insertion-ordered dict, 0 if absent
KeyIndex(dict, key) ==
    IF \E i \in 1..Len(dict) : dict[i].key = key
    THEN CHOOSE i \in 1..Len(dict) : dict[i].key = key
    ELSE 0

\* one iteration of the loop of _group_transactions_by_symbol
GroupOne(dict, row) ==
    LET d1 == IF KeyIndex(dict, row.Symbol) = 0
              THEN Append(dict, [key |-> row.Symbol, buys |-> <<>>, sells |-> <<>>,
                                 asset_category |-> row.Asset_Category])
              ELSE dict
        i == KeyIndex(d1, row.Symbol)
    IN  IF row.Action \in {"BUY_TO_OPEN", "BUY_TO_CLOSE"}
        THEN [d1 EXCEPT ![i].buys = Append(@, BuyEntry(row))]
        ELSE IF row.Action \in {"SELL_TO_CLOSE", "SELL_TO_OPEN"}
        THEN [d1 EXCEPT ![i].sells = Append(@, SellEntry(row))]
        ELSE d1

RECURSIVE GroupFrom(_, _)
GroupFrom(dict, rows) ==
    IF rows = <<>> THEN dict ELSE GroupFrom(GroupOne(dict, Head(rows)), Tail(rows))

\* _group_transactions_by_symbol: a dict in insertion order of the symbols
group_transactions_by_symbol(transactions) == GroupFrom(<<>>, transactions)

----------------------------------------------------------------------------
(* Currency converter *)

\* variant of get_exchange_rate: the fallback query without its date <= ? filter
get_exchange_rate_latest(table, date_str) ==
    IF date_str \in DOMAIN table THEN table[date_str]
    ELSE IF DOMAIN table = {} THEN Null
         ELSE table[CHOOSE d \in DOMAIN table : \A e \in DOMAIN table : e <= d]

\* get_exchange_rate: table maps a set of days to rates (date TEXT UNIQUE);
\* the exact date first, else the row with the greatest date <= date_str
get_exchange_rate(table, date_str) ==
    IF date_str \in DOMAIN table THEN table[date_str]
    ELSE LET earlier == {d \in DOMAIN table : d <= date_str}
         IN  IF earlier = {} THEN Null
             ELSE table[CHOOSE d \in earlier : \A e \in earlier : e <= d]

\* variant of Round2: the digits after the second decimal are cut off
Round2Down(x) == Q((100 * x[1]) \div x[2], 100)

\* round(x, 2): the nearest multiple of 0.01, a tie going to the even one
Round2(x) ==
    LET t == 100 * x[1]
        f == t \div x[2]
        r == t - f * x[2]
    IN  IF 2 * r < x[2] THEN Q(f, 100)
        ELSE IF 2 * r > x[2] THEN Q(f + 1, 100)
        ELSE IF f % 2 = 0 THEN Q(f, 100) ELSE Q(f + 1, 100)

\* convert_usd_to_eur(usd_amount, date_str); Null stands for None
convert_usd_to_eur(table, usd_amount, date_str) ==
    IF usd_amount = Null \/ usd_amount = QZero THEN Null
    ELSE LET rate == get_exchange_rate(table, date_str)
         IN  IF rate # Null /\ rate # QZero
             THEN Round2(QDiv(usd_amount, rate))
             ELSE Null

\* Python's `rate or 1.0`
OrOne(x) == IF x = Null \/ x = QZero THEN QOne ELSE x

----------------------------------------------------------------------------
(* Realized gains: _process_fifo_gains_by_category *)

\* variant of _calculate_fifo_match: the gain is also reduced by the sell's fees
calculate_fifo_match_less_fees(buy, sell, matched_qty, sell_qty) ==
    LET cost_basis == IF QGt(buy.quantity, QZero)
                      THEN QMul(QDiv(matched_qty, buy.quantity),
                                QAdd(buy.total_cost, buy.fees))
                      ELSE QZero
        proceeds == IF QGt(sell_qty, QZero)
                    THEN QMul(QDiv(matched_qty, sell_qty), sell.total_proceeds)
                    ELSE QZero
    IN  [cost_basis |-> cost_basis, proceeds |-> proceeds,
         gain_loss |-> QSub(QSub(proceeds, cost_basis), sell.fees)]

\* variant of _calculate_fifo_match: every match takes the whole proceeds of
\* the sell
calculate_fifo_match_whole_proceeds(buy, sell, matched_qty, sell_qty) ==
    LET cost_basis == IF QGt(buy.quantity, QZero)
                      THEN QMul(QDiv(matched_qty, buy.quantity),
                                QAdd(buy.total_cost, buy.fees))
                      ELSE QZero
        proceeds == IF QGt(sell_qty, QZero) THEN sell.total_proceeds ELSE QZero
    IN  [cost_basis |-> cost_basis, proceeds |-> proceeds,
         gain_loss |-> QSub(proceeds, cost_basis)]

\* _calculate_fifo_match
calculate_fifo_match(buy, sell, matched_qty, sell_qty) ==
    LET cost_basis == IF QGt(buy.quantity, QZero)
                      THEN QMul(QDiv(matched_qty, buy.quantity),
                                QAdd(buy.total_cost, buy.fees))
                      ELSE QZero
        proceeds == IF QGt(sell_qty, QZero)
                    THEN QMul(QDiv(matched_qty, sell_qty), sell.total_proceeds)
                    ELSE QZero
    IN  [cost_basis |-> cost_basis, proceeds |-> proceeds,
         gain_loss |-> QSub(proceeds, cost_basis)]

\* the dict appended to detailed_transactions for one match
MatchEntry(table, symbol_key, buy, sell, matched_qty, match_result) ==
    LET buy_rate == OrOne(get_exchange_rate(table, DayOf(buy.date)))
        sell_rate == OrOne(get_exchange_rate(table, DayOf(sell.date)))
    IN  [symbol |-> symbol_key,
         buy_date |-> buy.date,
         sell_date |-> sell.date,
         quantity |-> matched_qty,
         buy_price |-> buy.price,
         sell_price |-> sell.price,
         cost_basis |-> match_result.cost_basis,
         proceeds |-> match_result.proceeds,
         gain_loss |-> match_result.gain_loss,
         asset_category |-> buy.asset_category,
         buy_price_eur |-> QDiv(buy.price, buy_rate),
         sell_price_eur |-> QDiv(sell.price, sell_rate),
         cost_basis_eur |-> QDiv(match_result.cost_basis, buy_rate),
         proceeds_eur |-> QDiv(match_result.proceeds, sell_rate),
         gain_loss_eur |-> QSub(QDiv(match_result.proceeds, sell_rate),
                                QDiv(match_result.cost_basis, buy_rate))]

\* variant of Categorize: a match outside Stock and Option enters no bucket
CategorizeStockOption(rg, gain_loss, asset_category) ==
    IF QGt(gain_loss, QZero)
    THEN [rg EXCEPT
            !.total_gains = QAdd(@, gain_loss),
            !.stock_gains = IF asset_category = "Stock" THEN QAdd(@, gain_loss) ELSE @,
            !.option_gains = IF asset_category = "Option" THEN QAdd(@, gain_loss) ELSE @]
    ELSE [rg EXCEPT
            !.total_losses = QAdd(@, QAbs(gain_loss)),
            !.stock_losses = IF asset_category = "Stock" THEN QAdd(@, QAbs(gain_loss)) ELSE @,
            !.option_losses = IF asset_category = "Option" THEN QAdd(@, QAbs(gain_loss)) ELSE @]

\* "Categorize gains/losses for German tax": the eight running totals
Categorize(rg, gain_loss, asset_category) ==
    IF QGt(gain_loss, QZero)
    THEN [rg EXCEPT
            !.total_gains = QAdd(@, gain_loss),
            !.stock_gains = IF asset_category = "Stock" THEN QAdd(@, gain_loss) ELSE @,
            !.option_gains = IF asset_category = "Option" THEN QAdd(@, gain_loss) ELSE @,
            !.other_gains = IF asset_category \notin {"Stock", "Option"}
                            THEN QAdd(@, gain_loss) ELSE @]
    ELSE [rg EXCEPT
            !.total_losses = QAdd(@, QAbs(gain_loss)),
            !.stock_losses = IF asset_category = "Stock" THEN QAdd(@, QAbs(gain_loss)) ELSE @,
            !.option_losses = IF asset_category = "Option" THEN QAdd(@, QAbs(gain_loss)) ELSE @,
            !.other_losses = IF asset_category \notin {"Stock", "Option"}
                             THEN QAdd(@, QAbs(gain_loss)) ELSE @]

\* locals of _process_fifo_gains_by_category on entry.  buys holds references
\* (indices) into symbol_transactions[sym].buys: data['buys'].copy() is a
\* shallow copy, so the lot dicts are shared with the grouped structure.
FifoEntry(symbol_transactions) ==
    [pc |-> "symbols", symbol_transactions |-> symbol_transactions,
     sym |-> 0, buys |-> <<>>, sell |-> 0, remaining_sell_qty |-> QZero,
     detailed_transactions |-> <<>>,
     total_gains |-> QZero, total_losses |-> QZero,
     stock_gains |-> QZero, stock_losses |-> QZero,
     option_gains |-> QZero, option_losses |-> QZero,
     other_gains |-> QZero, other_losses |-> QZero]

\* variant of HeadBuy: the newest lot of the queue instead of the oldest
HeadBuyNewest(rg) == rg.symbol_transactions[rg.sym].buys[rg.buys[Len(rg.buys)]]

\* the lot at the head of the queue and the sell being processed
HeadBuy(rg) == rg.symbol_transactions[rg.sym].buys[rg.buys[1]]
CurSell(rg) == rg.symbol_transactions[rg.sym].sells[rg.sell]

\* for symbol_key, data in symbol_transactions.items(): next symbol
FifoNextSymbol(rg) ==
    [rg EXCEPT !.sym = @ + 1,
               !.buys = [i \in 1..Len(rg.symbol_transactions[rg.sym + 1].buys) |-> i],
               !.sell = 0, !.pc = "sells"]

\* for sell in sells: next sell, or the list is exhausted
FifoNextSell(rg) ==
    IF rg.sell < Len(rg.symbol_transactions[rg.sym].sells)
    THEN [rg EXCEPT !.sell = @ + 1,
                    !.remaining_sell_qty =
                        rg.symbol_transactions[rg.sym].sells[rg.sell + 1].quantity,
                    !.pc = "while"]
    ELSE [rg EXCEPT !.pc = "symbols"]

\* while remaining_sell_qty > 0 and buys
FifoWhile(rg) == QGt(rg.remaining_sell_qty, QZero) /\ rg.buys # <<>>

\* variant of FifoMatchFull: the sell is taken as exhausted after one lot
FifoMatchFullOnce(table, rg) ==
    LET buy == HeadBuy(rg)
        sell == CurSell(rg)
        matched_qty == buy.quantity
        match_result == calculate_fifo_match(buy, sell, matched_qty, sell.quantity)
        entry == MatchEntry(table, rg.symbol_transactions[rg.sym].key,
                            buy, sell, matched_qty, match_result)
        r1 == Categorize(rg, match_result.gain_loss, buy.asset_category)
    IN  [r1 EXCEPT !.detailed_transactions = Append(@, entry),
                   !.remaining_sell_qty = QZero,
                   !.buys = Tail(@)]

\* if buy['quantity'] <= remaining_sell_qty: use the entire buy position
FifoMatchFull(table, rg) ==
    LET buy == HeadBuy(rg)
        sell == CurSell(rg)
        matched_qty == buy.quantity
        match_result == calculate_fifo_match(buy, sell, matched_qty, sell.quantity)
        entry == MatchEntry(table, rg.symbol_transactions[rg.sym].key,
                            buy, sell, matched_qty, match_result)
        r1 == Categorize(rg, match_result.gain_loss, buy.asset_category)
    IN  [r1 EXCEPT !.detailed_transactions = Append(@, entry),
                   !.remaining_sell_qty = QSub(@, matched_qty),
                   !.buys = Tail(@)]

\* variant of FifoMatchPartial: the shrunk lot keeps all its fees
FifoMatchPartialKeepsFees(table, rg) ==
    LET buy == HeadBuy(rg)
        sell == CurSell(rg)
        matched_qty == rg.remaining_sell_qty
        match_result == calculate_fifo_match(buy, sell, matched_qty, sell.quantity)
        entry == MatchEntry(table, rg.symbol_transactions[rg.sym].key,
                            buy, sell, matched_qty, match_result)
        r1 == Categorize(rg, match_result.gain_loss, buy.asset_category)
        new_qty == QSub(buy.quantity, matched_qty)
        ratio == QDiv(new_qty, QAdd(new_qty, matched_qty))
        new_buy == IF QGt(new_qty, QZero)
                   THEN [buy EXCEPT !.quantity = new_qty,
                                    !.total_cost = QMul(@, ratio)]
                   ELSE [buy EXCEPT !.quantity = new_qty]
    IN  [r1 EXCEPT !.detailed_transactions = Append(@, entry),
                   !.symbol_transactions[rg.sym].buys[rg.buys[1]] = new_buy,
                   !.remaining_sell_qty = QZero]

\* else: partial buy position; the lot dict is updated in place
FifoMatchPartial(table, rg) ==
    LET buy == HeadBuy(rg)
        sell == CurSell(rg)
        matched_qty == rg.remaining_sell_qty
        match_result == calculate_fifo_match(buy, sell, matched_qty, sell.quantity)
        entry == MatchEntry(table, rg.symbol_transactions[rg.sym].key,
                            buy, sell, matched_qty, match_result)
        r1 == Categorize(rg, match_result.gain_loss, buy.asset_category)
        new_qty == QSub(buy.quantity, matched_qty)
        ratio == QDiv(new_qty, QAdd(new_qty, matched_qty))
        new_buy == IF QGt(new_qty, QZero)
                   THEN [buy EXCEPT !.quantity = new_qty,
                                    !.total_cost = QMul(@, ratio),
                                    !.fees = QMul(@, ratio)]
                   ELSE [buy EXCEPT !.quantity = new_qty]
    IN  [r1 EXCEPT !.detailed_transactions = Append(@, entry),
                   !.symbol_transactions[rg.sym].buys[rg.buys[1]] = new_buy,
                   !.remaining_sell_qty = QZero]

\* one step of the nested loops of _process_fifo_gains_by_category
FifoStep(table, rg) ==
    IF rg.pc = "symbols"
    THEN IF rg.sym < Len(rg.symbol_transactions)
         THEN FifoNextSymbol(rg) ELSE [rg EXCEPT !.pc = "return"]
    ELSE IF rg.pc = "sells" THEN FifoNextSell(rg)
    ELSE IF ~FifoWhile(rg) THEN [rg EXCEPT !.pc = "sells"]
    ELSE IF QLe(HeadBuy(rg).quantity, rg.remaining_sell_qty)
         THEN FifoMatchFull(table, rg)
         ELSE FifoMatchPartial(table, rg)

\* sum(tx['gain_loss_eur'] for tx in ... if category and tx['gain_loss_eur'] > 0)
EurGains(txs, cats) ==
    LET sel == SelectSeq(txs, LAMBDA tx : tx.asset_category \in cats
                                          /\ QGt(tx.gain_loss_eur, QZero))
    IN  QSum([i \in 1..Len(sel) |-> sel[i].gain_loss_eur])

\* sum(abs(tx['gain_loss_eur']) for tx in ... if category and tx['gain_loss_eur'] < 0)
EurLosses(txs, cats) ==
    LET sel == SelectSeq(txs, LAMBDA tx : tx.asset_category \in cats
                                          /\ QLt(tx.gain_loss_eur, QZero))
    IN  QSum([i \in 1..Len(sel) |-> QAbs(sel[i].gain_loss_eur)])

Categories == {"Stock", "Option", "ETF", "Unknown"}

\* the dict returned by calculate_realized_gains_losses from the dict
\* returned by _process_fifo_gains_by_category
GainsResult(rg) ==
    [total_gains |-> rg.total_gains,
     total_losses |-> rg.total_losses,
     net_gain_loss |-> QSub(rg.total_gains, rg.total_losses),
     detailed_transactions |-> rg.detailed_transactions,
     stock_gains |-> rg.stock_gains,
     stock_losses |-> rg.stock_losses,
     stock_net_gain_loss |-> QSub(rg.stock_gains, rg.stock_losses),
     option_gains |-> rg.option_gains,
     option_losses |-> rg.option_losses,
     option_net_gain_loss |-> QSub(rg.option_gains, rg.option_losses),
     other_gains |-> rg.other_gains,
     other_losses |-> rg.other_losses,
     other_net_gain_loss |-> QSub(rg.other_gains, rg.other_losses),
     stock_gains_eur |-> EurGains(rg.detailed_transactions, {"Stock"}),
     stock_losses_eur |-> EurLosses(rg.detailed_transactions, {"Stock"}),
     option_gains_eur |-> EurGains(rg.detailed_transactions, {"Option"}),
     option_losses_eur |-> EurLosses(rg.detailed_transactions, {"Option"}),
     other_gains_eur |-> EurGains(rg.detailed_transactions, Categories \ {"Stock", "Option"}),
     other_losses_eur |-> EurLosses(rg.detailed_transactions, Categories \ {"Stock", "Option"})]

\* the loops of _process_fifo_gains_by_category run to their end
RECURSIVE FifoRun(_, _)
FifoRun(table, rg) == IF rg.pc = "return" THEN rg ELSE FifoRun(table, FifoStep(table, rg))

\* calculate_realized_gains_losses(symbol, year) as a function of the tables
calculate_realized_gains_losses(transactions, table, symbol, year) ==
    GainsResult(FifoRun(table,
        FifoEntry(group_transactions_by_symbol(GainsQuery(transactions, symbol, year)))))

----------------------------------------------------------------------------
(* Dividend allocator: get_net_dividends_by_symbol *)

\* first occurrences of the symbols of a sequence of rows, in row order
RECURSIVE Distinct(_, _)
Distinct(seen, rows) ==
    IF rows = <<>> THEN seen
    ELSE IF \E i \in 1..Len(seen) : seen[i] = Head(rows).Symbol
         THEN Distinct(seen, Tail(rows))
         ELSE Distinct(Append(seen, Head(rows).Symbol), Tail(rows))

\* SELECT DISTINCT Symbol FROM transactions WHERE Type = 'Trade'
TradeSymbols(table) == Distinct(<<>>, SelectSeq(table, LAMBDA row : row.Type = "Trade"))

\* SELECT ... FROM transactions WHERE Symbol = ? ORDER BY Date ASC
SymbolRows(table, symbol) == SelectSeq(table, LAMBDA row : row.Symbol = symbol)

\* locals of get_net_dividends_by_symbol after the first query
DivEntry(table) ==
    [pc |-> "symbols", symbols |-> TradeSymbols(table), sym |-> 0,
     rows |-> <<>>, t |-> 0, share_lots |-> <<>>, remaining_to_sell |-> QZero,
     dividend_dict |-> <<>>]

\* for symbol in symbols: next symbol
DivNextSymbol(table, dv) ==
    [dv EXCEPT !.sym = @ + 1,
               !.rows = SymbolRows(table, dv.symbols[dv.sym + 1]),
               !.t = 0, !.share_lots = <<>>, !.pc = "trans"]

\* variant of Distribute: every lot receives the same share
DistributeEqually(share_lots, dividend_value) ==
    LET total_shares == QSum([i \in 1..Len(share_lots) |-> share_lots[i].quantity])
    IN  IF QGt(total_shares, QZero)
        THEN [i \in 1..Len(share_lots) |->
                LET lot_ratio == QDiv(QOne, QI(Len(share_lots)))
                    lot_dividend == QMul(dividend_value, lot_ratio)
                IN  IF QGt(dividend_value, QZero)
                    THEN [share_lots[i] EXCEPT !.gross_dividends = QAdd(@, lot_dividend)]
                    ELSE [share_lots[i] EXCEPT !.source_tax = QAdd(@, QAbs(lot_dividend))]]
        ELSE share_lots

\* "Distribute dividend to current share lots proportionally"
Distribute(share_lots, dividend_value) ==
    LET total_shares == QSum([i \in 1..Len(share_lots) |-> share_lots[i].quantity])
    IN  IF QGt(total_shares, QZero)
        THEN [i \in 1..Len(share_lots) |->
                LET lot_ratio == QDiv(share_lots[i].quantity, total_shares)
                    lot_dividend == QMul(dividend_value, lot_ratio)
                IN  IF QGt(dividend_value, QZero)
                    THEN [share_lots[i] EXCEPT !.gross_dividends = QAdd(@, lot_dividend)]
                    ELSE [share_lots[i] EXCEPT !.source_tax = QAdd(@, QAbs(lot_dividend))]]
        ELSE share_lots

\* "Sum up dividends from remaining (unsold) lots" at the end of a symbol
DivSumUp(dv) ==
    LET lots == dv.share_lots
        remaining_gross_dividends == QSum([i \in 1..Len(lots) |-> lots[i].gross_dividends])
        remaining_source_tax == QSum([i \in 1..Len(lots) |-> lots[i].source_tax])
    IN  IF QGt(remaining_gross_dividends, QZero) \/ QGt(remaining_source_tax, QZero)
        THEN Append(dv.dividend_dict,
                    [key |-> dv.symbols[dv.sym],
                     gross_dividends |-> remaining_gross_dividends,
                     source_tax |-> remaining_source_tax,
                     net_dividends |-> QSub(remaining_gross_dividends, remaining_source_tax)])
        ELSE dv.dividend_dict

\* for trans in transactions: the body for the next row, or the end of the loop
DivNextTrans(dv) ==
    IF dv.t = Len(dv.rows)
    THEN [dv EXCEPT !.dividend_dict = DivSumUp(dv), !.pc = "symbols"]
    ELSE LET trans == dv.rows[dv.t + 1]
             d1 == [dv EXCEPT !.t = @ + 1]
         IN  IF trans.Type = "Trade"
             THEN IF trans.Action = "BUY_TO_OPEN"
                  THEN [d1 EXCEPT !.share_lots =
                            Append(@, [date |-> trans.Date,
                                       quantity |-> QAbs(OrZero(trans.Quantity)),
                                       gross_dividends |-> QZero,
                                       source_tax |-> QZero])]
                  ELSE IF trans.Action = "SELL_TO_CLOSE"
                  THEN [d1 EXCEPT !.remaining_to_sell = QAbs(OrZero(trans.Quantity)),
                                  !.pc = "while"]
                  ELSE d1
             ELSE IF trans.Type = "Money Movement" /\ trans.Sub_Type \in {"Dividend", None}
             THEN [d1 EXCEPT !.share_lots = Distribute(@, OrZero(trans.Value))]
             ELSE d1

\* while remaining_to_sell > 0 and share_lots
DivWhile(dv) == QGt(dv.remaining_to_sell, QZero) /\ dv.share_lots # <<>>

\* "Entire lot is sold"
DivSellFull(dv) ==
    [dv EXCEPT !.remaining_to_sell = QSub(@, dv.share_lots[1].quantity),
               !.share_lots = Tail(@)]

\* variant of DivSellPartial: the shrunk lot keeps all its dividends
DivSellPartialKeepsDividends(dv) ==
    LET lot == dv.share_lots[1]
    IN  [dv EXCEPT !.share_lots[1] =
                      [lot EXCEPT !.quantity = QSub(@, dv.remaining_to_sell)],
                   !.remaining_to_sell = QZero]

\* "Partial lot sold"
DivSellPartial(dv) ==
    LET lot == dv.share_lots[1]
        sold_ratio == QDiv(dv.remaining_to_sell, lot.quantity)
    IN  [dv EXCEPT !.share_lots[1] =
                      [lot EXCEPT !.quantity = QSub(@, dv.remaining_to_sell),
                                  !.gross_dividends = QMul(@, QSub(QOne, sold_ratio)),
                                  !.source_tax = QMul(@, QSub(QOne, sold_ratio))],
                   !.remaining_to_sell = QZero]

\* one step of the loops of get_net_dividends_by_symbol
DivStep(table, dv) ==
    IF dv.pc = "symbols"
    THEN IF dv.sym < Len(dv.symbols)
         THEN DivNextSymbol(table, dv) ELSE [dv EXCEPT !.pc = "return"]
    ELSE IF dv.pc = "trans" THEN DivNextTrans(dv)
    ELSE IF ~DivWhile(dv) THEN [dv EXCEPT !.pc = "trans"]
    ELSE IF QLe(dv.share_lots[1].quantity, dv.remaining_to_sell)
         THEN DivSellFull(dv)
         ELSE DivSellPartial(dv)

----------------------------------------------------------------------------
(* Price resolution: get_current_stock_price and its helpers *)

\* _cache_timeout, in seconds
cache_timeout == 300

\* the string 'N/A' returned when no price could be fetched
NA == <<"N/A">>

\* symbol.strip().upper(); the symbols stored by the import are stripped, and
\* the lower-case symbol "a" is the one symbol this changes
StripUpper(symbol) == IF symbol = "a" THEN "A" ELSE symbol

\* _get_last_downloaded_price: stock_prices maps a symbol to its latest row
get_last_downloaded_price(stock_prices, symbol) ==
    IF StripUpper(symbol) \in DOMAIN stock_prices
    THEN stock_prices[StripUpper(symbol)] ELSE Null

\* _fetch_price_finnhub.  env holds the cache, the stock_prices table, the
\* clock and quote, the price the provider answers per symbol (Null when it
\* fails, times out, or no API key is configured).  The result is the
\* returned price with the updated cache and table; when the write of
\* _save_stock_price_to_db raises, the error is printed and the table stays.
fetch_price_finnhub(env, symbol, current_time, cache_key) ==
    IF env.quote[symbol] # Null
    THEN [price |-> env.quote[symbol],
          price_cache |-> (cache_key :> [price |-> env.quote[symbol],
                                         timestamp |-> current_time]) @@ env.price_cache,
          stock_prices |-> IF env.db_up
                           THEN (StripUpper(symbol) :> env.quote[symbol]) @@ env.stock_prices
                           ELSE env.stock_prices]
    ELSE [price |-> NA, price_cache |-> env.price_cache,
          stock_prices |-> env.stock_prices]

\* get_current_stock_price(symbol, source)
get_current_stock_price(env, symbol, source) ==
    LET cache_key == StripUpper(symbol)
        current_time == env.now
        clean_symbol == StripUpper(symbol)
        fetched == fetch_price_finnhub(env, clean_symbol, current_time, cache_key)
    IN  IF /\ source = "all"
           /\ cache_key \in DOMAIN env.price_cache
           /\ current_time - env.price_cache[cache_key].timestamp < cache_timeout
        THEN [price |-> env.price_cache[cache_key].price,
              price_cache |-> env.price_cache, stock_prices |-> env.stock_prices]
        ELSE IF source = "finnhub" THEN fetched
        ELSE IF fetched.price # NA THEN fetched
        ELSE IF cache_key \in DOMAIN env.price_cache
        THEN [fetched EXCEPT !.price = env.price_cache[cache_key].price]
        ELSE IF get_last_downloaded_price(env.stock_prices, symbol) # Null
        THEN [fetched EXCEPT !.price = get_last_downloaded_price(env.stock_prices, symbol)]
        ELSE fetched

\* variant of ResolvePrice: without a fetch, the persisted price comes first
ResolvePricePersistedFirst(env, symbol_key, weighted_avg_cost, fetch_current_prices) ==
    LET cache_key == StripUpper(symbol_key)
        got == get_current_stock_price(env, symbol_key, "all")
        last_downloaded_price == get_last_downloaded_price(env.stock_prices, symbol_key)
        same == [price_cache |-> env.price_cache, stock_prices |-> env.stock_prices]
    IN  IF fetch_current_prices
        THEN IF got.price = Null \/ got.price = NA
             THEN [got EXCEPT !.price = weighted_avg_cost]
             ELSE got
        ELSE IF last_downloaded_price # Null
        THEN [price |-> last_downloaded_price] @@ same
        ELSE IF /\ cache_key \in DOMAIN env.price_cache
                /\ env.now - env.price_cache[cache_key].timestamp < cache_timeout
        THEN [price |-> env.price_cache[cache_key].price] @@ same
        ELSE [price |-> weighted_avg_cost] @@ same

\* variant of ResolvePrice: an unresolved price is reported as 0
ResolvePriceNoFallback(env, symbol_key, weighted_avg_cost, fetch_current_prices) ==
    LET cache_key == StripUpper(symbol_key)
        got == get_current_stock_price(env, symbol_key, "all")
        last_downloaded_price == get_last_downloaded_price(env.stock_prices, symbol_key)
        same == [price_cache |-> env.price_cache, stock_prices |-> env.stock_prices]
    IN  IF fetch_current_prices
        THEN IF got.price = Null \/ got.price = NA
             THEN [got EXCEPT !.price = QZero]
             ELSE got
        ELSE IF /\ cache_key \in DOMAIN env.price_cache
                /\ env.now - env.price_cache[cache_key].timestamp < cache_timeout
        THEN [price |-> env.price_cache[cache_key].price] @@ same
        ELSE IF last_downloaded_price # Null
        THEN [price |-> last_downloaded_price] @@ same
        ELSE [price |-> QZero] @@ same

\* the current_price branch of calculate_unrealized_gains_losses
ResolvePrice(env, symbol_key, weighted_avg_cost, fetch_current_prices) ==
    LET cache_key == StripUpper(symbol_key)
        got == get_current_stock_price(env, symbol_key, "all")
        last_downloaded_price == get_last_downloaded_price(env.stock_prices, symbol_key)
        same == [price_cache |-> env.price_cache, stock_prices |-> env.stock_prices]
    IN  IF fetch_current_prices
        THEN IF got.price = Null \/ got.price = NA
             THEN [got EXCEPT !.price = weighted_avg_cost]
             ELSE got
        ELSE IF /\ cache_key \in DOMAIN env.price_cache
                /\ env.now - env.price_cache[cache_key].timestamp < cache_timeout
        THEN [price |-> env.price_cache[cache_key].price] @@ same
        ELSE IF last_downloaded_price # Null
        THEN [price |-> last_downloaded_price] @@ same
        ELSE [price |-> weighted_avg_cost] @@ same

----------------------------------------------------------------------------
(* Unrealized positions: calculate_unrealized_gains_losses *)

\* the WHERE clause of the query: Type = 'Trade' [AND Symbol = ?]
HoldingsQuery(table, symbol) ==
    SelectSeq(table, LAMBDA row : row.Type = "Trade"
                                  /\ (symbol # None => row.Symbol = symbol))

\* one iteration of the grouping loop into symbol_holdings
HoldOne(dict, row) ==
    LET d1 == IF KeyIndex(dict, row.Symbol) = 0
              THEN Append(dict, [key |-> row.Symbol, buys |-> <<>>, total_sold |-> QZero,
                                 asset_category |-> row.Asset_Category])
              ELSE dict
        i == KeyIndex(d1, row.Symbol)
    IN  IF row.Action = "BUY_TO_OPEN"
        THEN [d1 EXCEPT ![i].buys = Append(@, BuyEntry(row))]
        ELSE IF row.Action = "SELL_TO_CLOSE"
        THEN [d1 EXCEPT ![i].total_sold = QAdd(@, QAbs(OrZero(row.Quantity)))]
        ELSE d1

RECURSIVE HoldFrom(_, _)
HoldFrom(dict, rows) ==
    IF rows = <<>> THEN dict ELSE HoldFrom(HoldOne(dict, Head(rows)), Tail(rows))

\* locals of calculate_unrealized_gains_losses when the symbol loop starts
HoldEntry(table, symbol, dividend_data) ==
    [pc |-> "symbols", symbol_holdings |-> HoldFrom(<<>>, HoldingsQuery(table, symbol)),
     sym |-> 0, buys |-> <<>>, remaining_to_sell |-> QZero,
     unrealized_positions |-> <<>>,
     total_unrealized_value |-> QZero, total_cost_basis |-> QZero,
     dividend_data |-> dividend_data]

\* for symbol_key, data in symbol_holdings.items(): next symbol
HoldNextSymbol(ur) ==
    [ur EXCEPT !.sym = @ + 1,
               !.buys = [i \in 1..Len(ur.symbol_holdings[ur.sym + 1].buys) |-> i],
               !.remaining_to_sell = ur.symbol_holdings[ur.sym + 1].total_sold,
               !.pc = "while"]

HoldHead(ur) == ur.symbol_holdings[ur.sym].buys[ur.buys[1]]

\* while remaining_to_sell > 0 and buys
HoldWhile(ur) == QGt(ur.remaining_to_sell, QZero) /\ ur.buys # <<>>

\* the whole head lot is sold
HoldSellFull(ur) ==
    [ur EXCEPT !.remaining_to_sell = QSub(@, HoldHead(ur).quantity),
               !.buys = Tail(@)]

\* "Partial position sold": the lot dict is updated in place
HoldSellPartial(ur) ==
    LET buy == HoldHead(ur)
        new_qty == QSub(buy.quantity, ur.remaining_to_sell)
        ratio == QDiv(new_qty, QAdd(new_qty, ur.remaining_to_sell))
    IN  [ur EXCEPT !.symbol_holdings[ur.sym].buys[ur.buys[1]] =
                      [buy EXCEPT !.quantity = new_qty,
                                  !.total_cost = QMul(ratio, @),
                                  !.fees = QMul(ratio, @)],
                   !.remaining_to_sell = QZero]

\* min(buy['date'] for buy in buys)
MinDate(lots) == CHOOSE d \in {lots[i].date : i \in 1..Len(lots)} :
                    \A i \in 1..Len(lots) : d <= lots[i].date

\* dividend_data.get(symbol_key, {'net_dividends': 0})['net_dividends']
NetDividendsOf(dividend_data, symbol_key) ==
    IF KeyIndex(dividend_data, symbol_key) = 0 THEN QZero
    ELSE dividend_data[KeyIndex(dividend_data, symbol_key)].net_dividends

\* "Aggregate remaining positions by symbol": the position of the current
\* symbol, if any, with the cache and table as the price lookup leaves them
HoldPosition(env, ur, fetch_current_prices) ==
    LET data == ur.symbol_holdings[ur.sym]
        lots == [i \in 1..Len(ur.buys) |-> data.buys[ur.buys[i]]]
        total_quantity == QSum([i \in 1..Len(lots) |-> lots[i].quantity])
        total_symbol_cost_basis ==
            QSum([i \in 1..Len(lots) |-> QAdd(lots[i].total_cost, lots[i].fees)])
        weighted_avg_cost == QDiv(total_symbol_cost_basis, total_quantity)
        res == ResolvePrice(env, data.key, weighted_avg_cost, fetch_current_prices)
        current_value == QMul(total_quantity, res.price)
        net_dividends == NetDividendsOf(ur.dividend_data, data.key)
        position ==
            [symbol |-> data.key,
             quantity |-> total_quantity,
             avg_cost |-> weighted_avg_cost,
             current_price |-> res.price,
             cost_basis |-> total_symbol_cost_basis,
             current_value |-> current_value,
             unrealized_gain_loss |-> QSub(current_value, total_symbol_cost_basis),
             buy_date |-> MinDate(lots),
             net_dividends |-> net_dividends,
             adjusted_avg_cost |-> QSub(weighted_avg_cost, QDiv(net_dividends, total_quantity)),
             asset_category |-> data.asset_category]
    IN  IF ur.buys # <<>> /\ QGt(total_quantity, QZero)
        THEN [ur |-> [ur EXCEPT !.unrealized_positions = Append(@, position),
                                !.total_cost_basis = QAdd(@, total_symbol_cost_basis),
                                !.total_unrealized_value = QAdd(@, current_value),
                                !.pc = "symbols"],
              price_cache |-> res.price_cache, stock_prices |-> res.stock_prices]
        ELSE [ur |-> [ur EXCEPT !.pc = "symbols"],
              price_cache |-> env.price_cache, stock_prices |-> env.stock_prices]

\* the dict returned by calculate_unrealized_gains_losses
HoldResult(ur) ==
    [total_unrealized_gain_loss |-> QSub(ur.total_unrealized_value, ur.total_cost_basis),
     total_cost_basis |-> ur.total_cost_basis,
     total_current_value |-> ur.total_unrealized_value,
     positions |-> ur.unrealized_positions]

----------------------------------------------------------------------------
(* PortfolioService (services/portfolio_service.py) *)

\* _get_trade_transactions: the dict built from a row (float(x) if x else 0)
PsTransaction(row) ==
    [date |-> row.Date, symbol |-> row.Symbol, action |-> row.Action,
     quantity |-> OrZero(row.Quantity), price |-> OrZero(row.Average_Price),
     total |-> OrZero(row.Total), fees |-> OrZero(row.Fees),
     commissions |-> OrZero(row.Commissions)]

\* _get_trade_transactions: WHERE Type = 'Trade' ORDER BY Date ASC
PsTradeTransactions(table) ==
    LET rows == SelectSeq(table, LAMBDA row : row.Type = "Trade")
    IN  [i \in 1..Len(rows) |-> PsTransaction(rows[i])]

\* _get_dividend_data: SUM(Total) of the Dividend rows of a symbol, 0 if none
PsNetDividends(table, symbol) ==
    LET rows == SelectSeq(table, LAMBDA row : /\ row.Type = "Money Movement"
                                              /\ row.Sub_Type = "Dividend"
                                              /\ row.Symbol = symbol)
    IN  QSum([i \in 1..Len(rows) |-> OrZero(rows[i].Total)])

\* _separate_buy_sell_transactions: the entry built from a transaction
PsEntry(transaction) ==
    [date |-> transaction.date, quantity |-> transaction.quantity,
     price |-> transaction.price, total_cost |-> QAbs(transaction.total),
     fees |-> QAdd(transaction.fees, transaction.commissions)]

\* _separate_buy_sell_transactions
PsBuys(txs) ==
    LET sel == SelectSeq(txs, LAMBDA t : t.action \in {"BUY", "DEPOSIT"})
    IN  [i \in 1..Len(sel) |-> PsEntry(sel[i])]

PsSells(txs) ==
    LET sel == SelectSeq(txs, LAMBDA t : t.action \in {"SELL", "WITHDRAWAL"})
    IN  [i \in 1..Len(sel) |-> PsEntry(sel[i])]

\* the while loop of _process_fifo_matching for one sell.  st.buys is the
\* list passed in, st.remaining_buys the shallow copy as indices into it.
RECURSIVE PsWhile(_, _)
PsWhile(st, remaining_to_sell) ==
    IF ~(QGt(remaining_to_sell, QZero) /\ st.remaining_buys # <<>>) THEN st
    ELSE LET k == st.remaining_buys[1]
             buy == st.buys[k]
         IN  IF QLe(buy.quantity, remaining_to_sell)
             THEN PsWhile([st EXCEPT !.remaining_buys = Tail(@)],
                          QSub(remaining_to_sell, buy.quantity))
             ELSE LET new_qty == QSub(buy.quantity, remaining_to_sell)
                      ratio == QDiv(new_qty, QAdd(new_qty, remaining_to_sell))
                  IN  [st EXCEPT !.buys[k] =
                          [buy EXCEPT !.quantity = new_qty,
                                      !.total_cost = QMul(ratio, @),
                                      !.fees = QMul(ratio, @)]]

RECURSIVE PsSellLoop(_, _)
PsSellLoop(st, sells) ==
    IF sells = <<>> THEN st
    ELSE PsSellLoop(PsWhile(st, Head(sells).quantity), Tail(sells))

\* _process_fifo_matching(buys, sells): the list passed in as the call
\* leaves it, and the returned remaining_buys
PsProcessFifoMatching(buys, sells) ==
    PsSellLoop([buys |-> buys, remaining_buys |-> [i \in 1..Len(buys) |-> i]], sells)

\* db_service.get_last_stock_price
PsLastStockPrice(stock_prices, symbol) ==
    IF symbol \in DOMAIN stock_prices THEN stock_prices[symbol] ELSE Null

\* _get_current_price.  env holds the service's cache, the stock_prices
\* table and the clock.
PsGetCurrentPrice(env, symbol, fallback_price, fetch_current_prices) ==
    LET cache_key == StripUpper(symbol)
        db_price == PsLastStockPrice(env.stock_prices, symbol)
    IN  IF fetch_current_prices THEN fallback_price
        ELSE IF /\ cache_key \in DOMAIN env.price_cache
                /\ env.now - env.price_cache[cache_key].timestamp < cache_timeout
        THEN env.price_cache[cache_key].price
        ELSE IF db_price # Null THEN db_price
        ELSE fallback_price

\* _build_position_data; Null stands for the None it returns
PsBuildPositionData(env, table, symbol, buys, fetch_current_prices) ==
    LET total_quantity == QSum([i \in 1..Len(buys) |-> buys[i].quantity])
        total_cost_basis == QSum([i \in 1..Len(buys) |->
                                    QAdd(buys[i].total_cost, buys[i].fees)])
        weighted_avg_cost == QDiv(total_cost_basis, total_quantity)
        current_price == PsGetCurrentPrice(env, symbol, weighted_avg_cost,
                                           fetch_current_prices)
        current_value == QMul(total_quantity, current_price)
        net_dividends == PsNetDividends(table, symbol)
    IN  IF QLe(total_quantity, QZero) THEN Null
        ELSE [symbol |-> symbol,
              quantity |-> total_quantity,
              avg_cost |-> weighted_avg_cost,
              current_price |-> current_price,
              cost_basis |-> total_cost_basis,
              current_value |-> current_value,
              unrealized_gain_loss |-> QSub(current_value, total_cost_basis),
              buy_date |-> MinDate(buys),
              net_dividends |-> net_dividends,
              adjusted_avg_cost |-> QSub(weighted_avg_cost,
                                         QDiv(net_dividends, total_quantity))]

\* _calculate_symbol_position; Null stands for None
PsSymbolPosition(env, table, symbol, txs, fetch_current_prices) ==
    LET st == PsProcessFifoMatching(PsBuys(txs), PsSells(txs))
        remaining_buys == [i \in 1..Len(st.remaining_buys) |-> st.buys[st.remaining_buys[i]]]
    IN  IF remaining_buys = <<>> THEN Null
        ELSE PsBuildPositionData(env, table, symbol, remaining_buys, fetch_current_prices)

\* symbols of the trade transactions, in order of first occurrence
RECURSIVE PsSymbols(_, _)
PsSymbols(seen, txs) ==
    IF txs = <<>> THEN seen
    ELSE IF \E i \in 1..Len(seen) : seen[i] = Head(txs).symbol
         THEN PsSymbols(seen, Tail(txs))
         ELSE PsSymbols(Append(seen, Head(txs).symbol), Tail(txs))

\* PortfolioService.calculate_unrealized_gains_losses
PsUnrealized(env, table, fetch_current_prices) ==
    LET txs == PsTradeTransactions(table)
        symbols == PsSymbols(<<>>, txs)
        all == [i \in 1..Len(symbols) |->
                  PsSymbolPosition(env, table, symbols[i],
                                   SelectSeq(txs, LAMBDA t : t.symbol = symbols[i]),
                                   fetch_current_prices)]
        positions == SelectSeq(all, LAMBDA x : x # Null)
        total_cost_basis == QSum([i \in 1..Len(positions) |-> positions[i].cost_basis])
        total_unrealized_value ==
            QSum([i \in 1..Len(positions) |-> positions[i].current_value])
    IN  [total_unrealized_gain_loss |-> QSub(total_unrealized_value, total_cost_basis),
         total_cost_basis |-> total_cost_basis,
         total_current_value |-> total_unrealized_value,
         positions |-> positions]

----------------------------------------------------------------------------
(* State *)

VARIABLES
    transactions,       \* the transactions table, in Date order
    exchange_rates,     \* the exchange_rates table: day -> usd_to_eur_rate
    stock_prices,       \* the stock_prices table: symbol -> last saved price
    price_cache,        \* _price_cache: key -> [price, timestamp]
    now,                \* time.time(), in seconds
    quote,              \* what the price provider answers: symbol -> price or Null
    db_up,              \* whether a write to stock_prices succeeds (else it raises)
    host,               \* what the process runs: "app" (app.py) or "portfolio"
    ps_price_cache,     \* PortfolioService._price_cache: key -> [price, timestamp]
    pc,                 \* the engine function being executed, "idle" if none
    args,               \* the arguments of the call being executed
    rg,                 \* locals of _process_fifo_gains_by_category, or of a service's loops
    dv,                 \* locals of get_net_dividends_by_symbol
    ur,                 \* locals of calculate_unrealized_gains_losses
    close_open_qty,     \* history: quantity queued when the current sell was taken
    unmatched,          \* history: the sells whose while loop ended with a residual
    result,             \* the value returned by the last call, once it has returned
    history,            \* history: the last completed runs, with their inputs
    threads,            \* concurrent requests: thread -> its locals
    written             \* history: every (cache, key, entry) stored so far

tables == <<transactions, exchange_rates>>
prices == <<stock_prices, price_cache, ps_price_cache>>
world == <<now, quote, db_up, host>>

vars == <<transactions, exchange_rates, stock_prices, price_cache, now, quote,
          db_up, host, ps_price_cache,
          pc, args, rg, dv, ur, close_open_qty, unmatched, result, history,
          threads, written>>

\* exchange-rate tables of the engine runs: no rate before day 2, or all days
LateRates == (2 :> Q(11, 10))
FullRates == (1 :> Q(27, 25)) @@ (2 :> Q(11, 10))

NoArgs == [fn |-> "none"]
NoLocals == [pc |-> "none"]
NoResult == [returned |-> FALSE]
NoQuote == [s \in Symbols |-> Null]

\* the price lookups read the cache, the table, the clock and the provider
Env == [price_cache |-> price_cache, stock_prices |-> stock_prices,
        now |-> now, quote |-> quote, db_up |-> db_up]

Init ==
    /\ transactions \in Stores
    /\ exchange_rates \in {LateRates, FullRates}
    /\ stock_prices = <<>>
    /\ price_cache = <<>>
    /\ now = 0
    /\ quote = NoQuote
    /\ db_up = TRUE
    /\ host = "app"
    /\ ps_price_cache = <<>>
    /\ pc = "idle"
    /\ args = NoArgs
    /\ rg = NoLocals
    /\ dv = NoLocals
    /\ ur = NoLocals
    /\ close_open_qty = QZero
    /\ unmatched = <<>>
    /\ result = NoResult
    /\ history = <<>>
    /\ threads = <<>>
    /\ written = {}

\* total quantity of the lots referenced by a queue
QueueQty(lots, queue) == QSum([i \in 1..Len(queue) |-> lots[queue[i]].quantity])

----------------------------------------------------------------------------
(* calculate_realized_gains_losses(symbol, year), step by step *)

\* the call: query, _group_transactions_by_symbol, entry of the matcher
CallRealized(symbol, year) ==
    /\ pc = "idle"
    /\ pc' = "realized"
    /\ args' = [fn |-> "realized", symbol |-> symbol, year |-> year]
    /\ rg' = FifoEntry(group_transactions_by_symbol(GainsQuery(transactions, symbol, year)))
    /\ result' = NoResult
    /\ unmatched' = <<>>
    /\ UNCHANGED <<threads, written, tables, prices, world, dv, ur, close_open_qty, history>>

\* the outer loop takes the next symbol, or leaves the loop
RealizedNextSymbol ==
    /\ pc = "realized" /\ rg.pc = "symbols"
    /\ rg' = FifoStep(exchange_rates, rg)
    /\ UNCHANGED <<threads, written, tables, prices, world, pc, args, dv, ur, close_open_qty, unmatched, result, history>>

\* the sell loop takes the next sell, or returns to the outer loop
RealizedNextSell ==
    /\ pc = "realized" /\ rg.pc = "sells"
    /\ rg' = FifoStep(exchange_rates, rg)
    /\ close_open_qty' = QueueQty(rg.symbol_transactions[rg.sym].buys, rg.buys)
    /\ UNCHANGED <<threads, written, tables, prices, world, pc, args, dv, ur, unmatched, result, history>>

\* the while loop consumes the whole head lot
RealizedMatchFull ==
    /\ pc = "realized" /\ rg.pc = "while" /\ FifoWhile(rg)
    /\ QLe(HeadBuy(rg).quantity, rg.remaining_sell_qty)
    /\ rg' = FifoStep(exchange_rates, rg)
    /\ UNCHANGED <<threads, written, tables, prices, world, pc, args, dv, ur, close_open_qty, unmatched, result, history>>

\* the while loop consumes part of the head lot
RealizedMatchPartial ==
    /\ pc = "realized" /\ rg.pc = "while" /\ FifoWhile(rg)
    /\ ~QLe(HeadBuy(rg).quantity, rg.remaining_sell_qty)
    /\ rg' = FifoStep(exchange_rates, rg)
    /\ UNCHANGED <<threads, written, tables, prices, world, pc, args, dv, ur, close_open_qty, unmatched, result, history>>

\* the while loop ends: the sell is exhausted or the queue is empty
RealizedEndWhile ==
    /\ pc = "realized" /\ rg.pc = "while" /\ ~FifoWhile(rg)
    /\ rg' = FifoStep(exchange_rates, rg)
    /\ unmatched' = IF QGt(rg.remaining_sell_qty, QZero)
                    THEN Append(unmatched, [symbol |-> rg.symbol_transactions[rg.sym].key,
                                            sell_date |-> CurSell(rg).date,
                                            quantity |-> rg.remaining_sell_qty])
                    ELSE unmatched
    /\ UNCHANGED <<threads, written, tables, prices, world, pc, args, dv, ur, close_open_qty, result, history>>

\* return of calculate_realized_gains_losses, all but the history
ReturnRealizedCore ==
    /\ pc = "realized" /\ rg.pc = "return"
    /\ result' = GainsResult(rg)
    /\ pc' = "idle"
    /\ rg' = NoLocals
    /\ close_open_qty' = QZero
    /\ UNCHANGED <<threads, written, tables, prices, world, args, dv, ur, unmatched>>

ReturnRealized == ReturnRealizedCore /\ UNCHANGED history

----------------------------------------------------------------------------
(* calculate_unrealized_gains_losses(symbol, fetch_current_prices), step by step *)

\* the call: the trade query, then get_net_dividends_by_symbol() is entered
CallUnrealized(symbol, fetch_current_prices) ==
    /\ pc = "idle"
    /\ pc' = "dividends"
    /\ args' = [fn |-> "unrealized", symbol |-> symbol,
                fetch_current_prices |-> fetch_current_prices,
                stock_prices |-> stock_prices, quote |-> quote]
    /\ dv' = DivEntry(transactions)
    /\ result' = NoResult
    /\ unmatched' = <<>>
    /\ UNCHANGED <<threads, written, tables, prices, world, rg, ur, close_open_qty, history>>

\* the allocator takes the next symbol, or leaves the loop
DividendsNextSymbol ==
    /\ pc = "dividends" /\ dv.pc = "symbols"
    /\ dv' = DivStep(transactions, dv)
    /\ UNCHANGED <<threads, written, tables, prices, world, pc, args, rg, ur, close_open_qty, unmatched, result, history>>

\* the allocator processes the next row of the symbol, or sums the symbol up
DividendsNextTrans ==
    /\ pc = "dividends" /\ dv.pc = "trans"
    /\ dv' = DivStep(transactions, dv)
    /\ UNCHANGED <<threads, written, tables, prices, world, pc, args, rg, ur, close_open_qty, unmatched, result, history>>

\* the allocator's while loop removes the whole head lot
DividendsSellFull ==
    /\ pc = "dividends" /\ dv.pc = "while" /\ DivWhile(dv)
    /\ QLe(dv.share_lots[1].quantity, dv.remaining_to_sell)
    /\ dv' = DivStep(transactions, dv)
    /\ UNCHANGED <<threads, written, tables, prices, world, pc, args, rg, ur, close_open_qty, unmatched, result, history>>

\* the allocator's while loop shrinks the head lot
DividendsSellPartial ==
    /\ pc = "dividends" /\ dv.pc = "while" /\ DivWhile(dv)
    /\ ~QLe(dv.share_lots[1].quantity, dv.remaining_to_sell)
    /\ dv' = DivStep(transactions, dv)
    /\ UNCHANGED <<threads, written, tables, prices, world, pc, args, rg, ur, close_open_qty, unmatched, result, history>>

\* the allocator's while loop ends
DividendsEndWhile ==
    /\ pc = "dividends" /\ dv.pc = "while" /\ ~DivWhile(dv)
    /\ dv' = DivStep(transactions, dv)
    /\ UNCHANGED <<threads, written, tables, prices, world, pc, args, rg, ur, close_open_qty, unmatched, result, history>>

\* get_net_dividends_by_symbol returns; the trades are grouped into symbol_holdings
ReturnDividends ==
    /\ pc = "dividends" /\ dv.pc = "return"
    /\ pc' = "unrealized"
    /\ ur' = HoldEntry(transactions, args.symbol, dv.dividend_dict)
    /\ dv' = NoLocals
    /\ UNCHANGED <<threads, written, tables, prices, world, args, rg, close_open_qty, unmatched, result, history>>

\* the valuator takes the next symbol
UnrealizedNextSymbol ==
    /\ pc = "unrealized" /\ ur.pc = "symbols" /\ ur.sym < Len(ur.symbol_holdings)
    /\ ur' = HoldNextSymbol(ur)
    /\ UNCHANGED <<threads, written, tables, prices, world, pc, args, rg, dv, close_open_qty, unmatched, result, history>>

\* the valuator's while loop removes the whole head lot
UnrealizedSellFull ==
    /\ pc = "unrealized" /\ ur.pc = "while" /\ HoldWhile(ur)
    /\ QLe(HoldHead(ur).quantity, ur.remaining_to_sell)
    /\ ur' = HoldSellFull(ur)
    /\ UNCHANGED <<threads, written, tables, prices, world, pc, args, rg, dv, close_open_qty, unmatched, result, history>>

\* the valuator's while loop shrinks the head lot
UnrealizedSellPartial ==
    /\ pc = "unrealized" /\ ur.pc = "while" /\ HoldWhile(ur)
    /\ ~QLe(HoldHead(ur).quantity, ur.remaining_to_sell)
    /\ ur' = HoldSellPartial(ur)
    /\ UNCHANGED <<threads, written, tables, prices, world, pc, args, rg, dv, close_open_qty, unmatched, result, history>>

\* after the while loop: the position of the symbol and its current price
UnrealizedPosition ==
    /\ pc = "unrealized" /\ ur.pc = "while" /\ ~HoldWhile(ur)
    /\ LET out == HoldPosition(Env, ur, args.fetch_current_prices)
       IN  /\ ur' = out.ur
           /\ price_cache' = out.price_cache
           /\ stock_prices' = out.stock_prices
    /\ UNCHANGED <<threads, written, tables, world, ps_price_cache, pc, args, rg, dv, close_open_qty, unmatched, result, history>>

\* return of calculate_unrealized_gains_losses, all but the history
ReturnUnrealizedCore ==
    /\ pc = "unrealized" /\ ur.pc = "symbols" /\ ur.sym = Len(ur.symbol_holdings)
    /\ result' = HoldResult(ur)
    /\ pc' = "idle"
    /\ ur' = NoLocals
    /\ UNCHANGED <<threads, written, tables, prices, world, args, rg, dv, close_open_qty, unmatched>>

ReturnUnrealized == ReturnUnrealizedCore /\ UNCHANGED history

----------------------------------------------------------------------------
(* The engine over every transactions table *)

YearArgs == {None, "2023", "2024", "ytd"}
SymbolArgs == {None, "A"}

RealizedSteps ==
    \/ RealizedNextSymbol
    \/ RealizedNextSell
    \/ RealizedMatchFull
    \/ RealizedMatchPartial
    \/ RealizedEndWhile

UnrealizedSteps ==
    \/ DividendsNextSymbol
    \/ DividendsNextTrans
    \/ DividendsSellFull
    \/ DividendsSellPartial
    \/ DividendsEndWhile
    \/ ReturnDividends
    \/ UnrealizedNextSymbol
    \/ UnrealizedSellFull
    \/ UnrealizedSellPartial
    \/ UnrealizedPosition

Next ==
    \/ \E symbol \in SymbolArgs, year \in YearArgs : CallRealized(symbol, year)
    \/ RealizedSteps
    \/ ReturnRealized
    \/ \E symbol \in SymbolArgs : CallUnrealized(symbol, FALSE)
    \/ UnrealizedSteps
    \/ ReturnUnrealized

Spec == Init /\ [][Next]_vars

----------------------------------------------------------------------------
(* FIFO order of the three passes *)

\* the grouped lots as the query of the running call delivered them
OrigGroups == group_transactions_by_symbol(GainsQuery(transactions, args.symbol, args.year))
OrigHoldings == HoldFrom(<<>>, HoldingsQuery(transactions, args.symbol))

\* lot k is still referenced by the queue
Queued(queue, k) == \E q \in 1..Len(queue) : queue[q] = k

\* lots touched before an older lot has left the queue: none, in a FIFO pass
OlderLotsGone(orig, cur, queue, matched) ==
    \A k \in 1..Len(orig) :
        (cur[k] # orig[k] \/ ~Queued(queue, k) \/ orig[k].date \in matched)
        => \A j \in 1..(k - 1) : orig[j].date < orig[k].date /\ ~Queued(queue, j)

\* buy dates of the matches recorded for a symbol
MatchedDates(txs, key) == {txs[m].buy_date : m \in {n \in 1..Len(txs) : txs[n].symbol = key}}

RealizedFifo ==
    (pc = "realized" /\ rg.sym > 0) =>
        OlderLotsGone(OrigGroups[rg.sym].buys, rg.symbol_transactions[rg.sym].buys,
                      rg.buys, MatchedDates(rg.detailed_transactions,
                                            rg.symbol_transactions[rg.sym].key))

UnrealizedFifo ==
    (pc = "unrealized" /\ ur.sym > 0) =>
        OlderLotsGone(OrigHoldings[ur.sym].buys, ur.symbol_holdings[ur.sym].buys,
                      ur.buys, {})

\* the BUY_TO_OPEN rows the allocator has turned into share lots so far
DivOpened == SelectSeq(SubSeq(dv.rows, 1, dv.t),
                       LAMBDA row : row.Type = "Trade" /\ row.Action = "BUY_TO_OPEN")

\* the share lot opened by a row is still held with the quantity it was opened with
DivIntact(row) ==
    \E i \in 1..Len(dv.share_lots) :
        /\ dv.share_lots[i].date = row.Date
        /\ dv.share_lots[i].quantity = QAbs(OrZero(row.Quantity))

DivHeld(row) == \E i \in 1..Len(dv.share_lots) : dv.share_lots[i].date = row.Date

DividendsFifo ==
    (pc = "dividends" /\ dv.pc \in {"trans", "while"}) =>
        \A k \in 1..Len(DivOpened) :
            ~DivIntact(DivOpened[k])
            => \A j \in 1..(k - 1) : /\ DivOpened[j].Date < DivOpened[k].Date
                                     /\ ~DivHeld(DivOpened[j])

\* a symbol with two lots and one close smaller than the first lot
SmallClose(data) ==
    /\ Len(data.buys) >= 2 /\ Len(data.sells) = 1
    /\ QGt(data.sells[1].quantity, QZero)
    /\ QLt(data.sells[1].quantity, data.buys[1].quantity)

SmallCloseTakesLot1 ==
    (pc = "realized" /\ rg.pc = "return") =>
        \A i \in 1..Len(OrigGroups) :
            SmallClose(OrigGroups[i]) =>
                LET data == OrigGroups[i]
                    after == rg.symbol_transactions[i]
                    ms == SelectSeq(rg.detailed_transactions,
                                    LAMBDA tx : tx.symbol = data.key)
                IN  /\ Len(ms) = 1
                    /\ ms[1].buy_date = data.buys[1].date
                    /\ ms[1].quantity = data.sells[1].quantity
                    /\ QLt(after.buys[1].quantity, data.buys[1].quantity)
                    /\ after.buys[1].quantity =
                           QSub(data.buys[1].quantity, data.sells[1].quantity)
                    /\ \A k \in 2..Len(data.buys) : after.buys[k] = data.buys[k]

\* C1: in the realized matcher, the open-lot pass of the valuator and the
\* dividend allocator, a lot is matched, reduced or removed only when every
\* older lot of the symbol has left the queue, the queue being in ascending
\* date order; and a single close smaller than the first of two lots yields
\* exactly one match, against the first lot, which shrinks while the second
\* lot stays as it was.
C1_FifoOrder == RealizedFifo /\ UnrealizedFifo /\ DividendsFifo /\ SmallCloseTakesLot1

\* a finished run in which a small close met two lots
C1_Witness ==
    /\ pc = "realized" /\ rg.pc = "return"
    /\ \E i \in 1..Len(OrigGroups) :
          /\ SmallClose(OrigGroups[i])
          /\ OrigGroups[i].buys[1].date < OrigGroups[i].sells[1].date
          /\ Len(rg.detailed_transactions) > 0

----------------------------------------------------------------------------
(* Quantity conservation and the gain identity *)

\* the matches recorded for the sell being processed
MatchesOfSell ==
    SelectSeq(rg.detailed_transactions,
              LAMBDA tx : /\ tx.symbol = rg.symbol_transactions[rg.sym].key
                          /\ tx.sell_date = CurSell(rg).date)

\* the while loop of the current sell has ended
SellDone == pc = "realized" /\ rg.pc = "while" /\ ~FifoWhile(rg)

\* C2: when the while loop of a close ends and the quantity queued when
\* the close was taken was at least the close's quantity, the quantities of
\* the matches recorded for that close add up to the close's quantity.
C2_MatchedQuantity ==
    (SellDone /\ QLe(CurSell(rg).quantity, close_open_qty)) =>
        QSum([m \in 1..Len(MatchesOfSell) |-> MatchesOfSell[m].quantity])
            = CurSell(rg).quantity

\* a close that took two lots to fill
C2_Witness ==
    /\ SellDone
    /\ QLe(CurSell(rg).quantity, close_open_qty)
    /\ Len(MatchesOfSell) = 2

\* the matches held by the running matcher or by the value it returned
MatchesSoFar ==
    IF pc = "realized" THEN rg.detailed_transactions
    ELSE IF result # NoResult /\ args.fn = "realized" THEN result.detailed_transactions
    ELSE <<>>

----------------------------------------------------------------------------
(* Chronology, fiscal-year restriction, oversell and missing rates *)

\* dates of the SELL_TO_CLOSE rows of a symbol
CloseDates(symbol_key) ==
    {transactions[i].Date : i \in {n \in 1..Len(transactions) :
        /\ transactions[n].Type = "Trade"
        /\ transactions[n].Symbol = symbol_key
        /\ transactions[n].Action = "SELL_TO_CLOSE"}}

\* every lot the open-lot pass has reduced or removed was opened before some close
HoldChronological ==
    (pc = "unrealized" /\ ur.sym > 0) =>
        LET orig == OrigHoldings[ur.sym].buys
            cur == ur.symbol_holdings[ur.sym].buys
        IN  \A k \in 1..Len(orig) :
                (cur[k] # orig[k] \/ ~Queued(ur.buys, k))
                => \E d \in CloseDates(ur.symbol_holdings[ur.sym].key) : orig[k].date <= d

\* C4: every match of the realized matcher has buy_date <= sell_date (so a
\* close that precedes every opening of its symbol is matched with nothing),
\* and the open-lot pass of the valuator reduces or removes a lot only if
\* some close of the symbol is dated at or after the lot.
C4_ClosesTakeEarlierLots ==
    /\ \A m \in 1..Len(MatchesSoFar) :
          MatchesSoFar[m].buy_date <= MatchesSoFar[m].sell_date
    /\ HoldChronological

\* the matches of a result whose sell_date lies in a year
InYear(txs, year) == SelectSeq(txs, LAMBDA tx : YearOf(tx.sell_date) = year)

\* C5: the matches returned for a fiscal year are the matches of the
\* full-history run (year = None) whose sell_date lies in that year.
C5_YearIsRestrictionOfFullRun ==
    (pc = "idle" /\ result # NoResult /\ args.fn = "realized" /\ args.year \in Years) =>
        result.detailed_transactions =
            InYear(calculate_realized_gains_losses(transactions, exchange_rates,
                                                   args.symbol, None).detailed_transactions,
                   args.year)

\* C6: when the while loop of a close ended with a residual quantity, no
\* match of that close exceeds what was queued, and the returned result
\* carries a warning for the residual.
C6_OversellWarned ==
    /\ SellDone =>
          QLe(QSum([m \in 1..Len(MatchesOfSell) |-> MatchesOfSell[m].quantity]),
              close_open_qty)
    /\ (pc = "idle" /\ result # NoResult /\ args.fn = "realized" /\ unmatched # <<>>) =>
          /\ "warnings" \in DOMAIN result
          /\ \A u \in 1..Len(unmatched) :
                \E w \in 1..Len(result.warnings) : result.warnings[w] = unmatched[u]

\* the rate the matcher looks up for a transaction date
RateOf(date) == get_exchange_rate(exchange_rates, DayOf(date))

\* C7: a match whose buy date or sell date has no exchange rate has null
\* EUR fields where the missing rate is needed, and no EUR field of such a
\* match holds the unconverted USD amount.
C7_MissingRateGivesNull ==
    \A m \in 1..Len(MatchesSoFar) :
        LET tx == MatchesSoFar[m]
        IN  /\ RateOf(tx.buy_date) = Null =>
                 /\ tx.buy_price_eur = Null
                 /\ tx.cost_basis_eur = Null
                 /\ tx.gain_loss_eur = Null
            /\ RateOf(tx.sell_date) = Null =>
                 /\ tx.sell_price_eur = Null
                 /\ tx.proceeds_eur = Null
                 /\ tx.gain_loss_eur = Null

----------------------------------------------------------------------------
(* The exchange-rate table and its lookup *)

Days == 0..MaxDay
Rates == {Q(11, 10), Q(27, 25)}

\* the data lines of latest_usd_eur_rates.csv: date;rate
RateFiles == UNION {[1..n -> Days \X Rates] : n \in 1..2}

\* the loop of parse_and_import_exchange_rates: INSERT OR REPLACE per line
RECURSIVE ImportLines(_, _)
ImportLines(table, lines) ==
    IF lines = <<>> THEN table
    ELSE ImportLines((Head(lines)[1] :> Head(lines)[2]) @@ table, Tail(lines))

\* parse_and_import_exchange_rates()
ImportExchangeRates(file) ==
    /\ pc = "idle"
    /\ exchange_rates' = ImportLines(exchange_rates, file)
    /\ args' = [fn |-> "import"]
    /\ result' = [returned |-> TRUE, ok |-> TRUE, imported_count |-> Len(file)]
    /\ UNCHANGED <<threads, written, transactions, prices, world, pc, rg, dv, ur, close_open_qty,
                   unmatched, history>>

\* get_exchange_rate(date_str)
LookupRate(date_str) ==
    /\ pc = "idle"
    /\ args' = [fn |-> "rate", date_str |-> date_str]
    /\ result' = [returned |-> TRUE, rate |-> get_exchange_rate(exchange_rates, date_str)]
    /\ UNCHANGED <<threads, written, tables, prices, world, pc, rg, dv, ur, close_open_qty,
                   unmatched, history>>

\* the amounts converted: none, zero, seven cents either way, 1.16 and 100
UsdAmounts == {Null, QZero, Q(7, 100), Q(-7, 100), Q(116, 100), QI(100)}

\* convert_usd_to_eur(usd_amount, date_str)
ConvertUsdToEur(usd_amount, date_str) ==
    /\ pc = "idle"
    /\ args' = [fn |-> "convert", usd_amount |-> usd_amount, date_str |-> date_str]
    /\ result' = [returned |-> TRUE,
                  eur |-> convert_usd_to_eur(exchange_rates, usd_amount, date_str)]
    /\ UNCHANGED <<threads, written, tables, prices, world, pc, rg, dv, ur, close_open_qty,
                   unmatched, history>>

InitRate ==
    /\ transactions = <<>>
    /\ exchange_rates = <<>>
    /\ stock_prices = <<>>
    /\ price_cache = <<>>
    /\ now = 0
    /\ quote = NoQuote
    /\ db_up = TRUE
    /\ host = "app"
    /\ ps_price_cache = <<>>
    /\ pc = "idle"
    /\ args = NoArgs
    /\ rg = NoLocals
    /\ dv = NoLocals
    /\ ur = NoLocals
    /\ close_open_qty = QZero
    /\ unmatched = <<>>
    /\ result = NoResult
    /\ history = <<>>
    /\ threads = <<>>
    /\ written = {}

NextRate ==
    \/ \E file \in RateFiles : ImportExchangeRates(file)
    \/ \E date_str \in Days : LookupRate(date_str)
    \/ \E usd_amount \in UsdAmounts, date_str \in Days :
          ConvertUsdToEur(usd_amount, date_str)

SpecRate == InitRate /\ [][NextRate]_vars

\* a lookup has returned and the table is as the lookup read it
Looked == args.fn = "rate" /\ result # NoResult

\* the table dates at or before the date looked up
AtOrBefore == {d \in DOMAIN exchange_rates : d <= args.date_str}

\* rates only for 2024-01-01 (1.10) and 2024-01-10 (1.08), as days 2 and 4;
\* 2023-12-31 is day 1 and 2024-01-05 is day 3
ExampleRates == (2 :> Q(11, 10)) @@ (4 :> Q(27, 25))

\* C8: a lookup returns the rate stored for the greatest table date at or
\* before the date looked up (the date itself when present), never null
\* then and never the rate of a later date only; it returns null when no
\* table date is at or before it.  With the example table the rate of
\* 2024-01-05 is 1.10 and the rate of 2023-12-31 is absent.
C8_RateCarriedForward ==
    Looked =>
        /\ AtOrBefore = {} => result.rate = Null
        /\ \A d \in AtOrBefore :
              (\A e \in AtOrBefore : e <= d) => result.rate = exchange_rates[d]
        /\ (exchange_rates = ExampleRates /\ args.date_str = 3) => result.rate = Q(11, 10)
        /\ (exchange_rates = ExampleRates /\ args.date_str = 1) => result.rate = Null

\* the example table, with 2024-01-05 looked up
C8_Witness ==
    /\ Looked
    /\ exchange_rates = ExampleRates
    /\ args.date_str = 3
    /\ result.rate = Q(11, 10)

----------------------------------------------------------------------------
(* The engine in a long-running process: clock, price provider, price cache *)

\* a position in A opened in two lots, partly closed, with a dividend, and
\* a purchase entered with the plain action BUY
PriceStore ==
    <<RowOf(1, <<"Trade", "A", "BUY_TO_OPEN", QI(1)>>),
      RowOf(2, <<"Trade", "A", "BUY_TO_OPEN", QI(2)>>),
      RowOf(3, <<"Money Movement", "A", "Dividend", QI(6)>>),
      RowOf(4, <<"Trade", "A", "SELL_TO_CLOSE", QI(2)>>),
      RowOf(5, <<"Trade", "A", "BUY", QI(1)>>)>>

\* what the provider may answer for A: nothing, or one of two prices
Quotes == {Null, QI(20), QI(30)}

\* time passes between two requests, half a cache lifetime at a time
Tick ==
    /\ pc = "idle"
    /\ now < MaxClock * (cache_timeout \div 2)
    /\ now' = now + cache_timeout \div 2
    /\ UNCHANGED <<threads, written, tables, prices, quote, db_up, host, pc, args, rg, dv, ur, close_open_qty,
                   unmatched, result, history>>

\* the market moves, or the provider starts or stops answering
QuoteChange(p) ==
    /\ pc = "idle"
    /\ quote["A"] # p
    /\ quote' = [quote EXCEPT !["A"] = p]
    /\ UNCHANGED <<threads, written, tables, prices, now, db_up, host, pc, args, rg, dv, ur, close_open_qty,
                   unmatched, result, history>>

\* a write to the stock_prices table starts or stops failing (database locked)
DbChange ==
    /\ pc = "idle"
    /\ db_up' = ~db_up
    /\ UNCHANGED <<threads, written, tables, prices, now, quote, host, pc, args, rg, dv, ur, close_open_qty,
                   unmatched, result, history>>

\* what PortfolioService reads for a price
PsEnv == [price_cache |-> ps_price_cache, stock_prices |-> stock_prices, now |-> now]

\* PortfolioService.cache_price(symbol, price)
PsCachePrice(symbol, price) ==
    /\ pc = "idle"
    /\ ps_price_cache' = (StripUpper(symbol) :> [price |-> price, timestamp |-> now])
                             @@ ps_price_cache
    /\ UNCHANGED <<threads, written, tables, stock_prices, price_cache, world, pc, args, rg, dv, ur,
                   close_open_qty, unmatched, result, history>>

\* PortfolioService.calculate_unrealized_gains_losses(fetch_current_prices);
\* args keeps what the call read
CallPortfolioService(fetch_current_prices) ==
    /\ pc = "idle"
    /\ args' = [fn |-> "ps_unrealized", fetch_current_prices |-> fetch_current_prices,
                env |-> PsEnv]
    /\ result' = PsUnrealized(PsEnv, transactions, fetch_current_prices)
    /\ unmatched' = <<>>
    /\ UNCHANGED <<threads, written, tables, prices, world, pc, rg, dv, ur, close_open_qty, history>>

\* the returns, with the completed run recorded
ReturnRealizedRecorded ==
    /\ ReturnRealizedCore
    /\ history' = [args |-> args, result |-> GainsResult(rg)]

ReturnUnrealizedRecorded ==
    /\ ReturnUnrealizedCore
    /\ history' = [args |-> args, result |-> HoldResult(ur)]

NoRun == [args |-> NoArgs]

\* a process is the web application or a host of PortfolioService; the
\* latter may find a price an earlier process persisted

InitPrice ==
    /\ transactions = PriceStore
    /\ exchange_rates = FullRates
    /\ \/ host = "app" /\ stock_prices = <<>>
       \/ host = "portfolio" /\ stock_prices \in {<<>>, ("A" :> QI(20))}
    /\ price_cache = <<>>
    /\ now = 0
    /\ quote = NoQuote
    /\ db_up = TRUE
    /\ ps_price_cache = <<>>
    /\ pc = "idle"
    /\ args = NoArgs
    /\ rg = NoLocals
    /\ dv = NoLocals
    /\ ur = NoLocals
    /\ close_open_qty = QZero
    /\ unmatched = <<>>
    /\ result = NoResult
    /\ history = NoRun
    /\ threads = <<>>
    /\ written = {}

NextPrice ==
    \/ Tick
    \/ host = "app" /\ \E p \in Quotes : QuoteChange(p)
    \/ host = "app" /\ DbChange
    \/ host = "portfolio" /\ \E p \in Quotes \ {Null} : PsCachePrice("A", p)
    \/ host = "portfolio" /\ \E fetch_current_prices \in BOOLEAN :
                                CallPortfolioService(fetch_current_prices)
    \/ host = "app" /\ CallRealized(None, None)
    \/ RealizedSteps
    \/ ReturnRealizedRecorded
    \/ host = "app" /\ \E fetch_current_prices \in BOOLEAN :
                          CallUnrealized(None, fetch_current_prices)
    \/ UnrealizedSteps
    \/ ReturnUnrealizedRecorded

SpecPrice == InitPrice /\ [][NextPrice]_vars

\* the value the running call is about to return
Returning ==
    IF pc = "realized" /\ rg.pc = "return" THEN GainsResult(rg)
    ELSE IF pc = "unrealized" /\ ur.pc = "symbols" /\ ur.sym = Len(ur.symbol_holdings)
    THEN HoldResult(ur)
    ELSE NoResult

\* C9: a call that is about to return, made with the arguments, tables,
\* persisted prices and provider answer of the previous completed call,
\* returns what that call returned.
C9_SameInputsSameResult ==
    (Returning # NoResult /\ history.args = args) => Returning = history.result

\* C10: in a run with fetch_current_prices = True, every position of a
\* symbol the provider answers with a price has that price as current_price.
C10_FreshPriceWins ==
    (pc = "unrealized" /\ args.fetch_current_prices) =>
        \A i \in 1..Len(ur.unrealized_positions) :
            LET position == ur.unrealized_positions[i]
            IN  quote[StripUpper(position.symbol)] # Null
                => position.current_price = quote[StripUpper(position.symbol)]

----------------------------------------------------------------------------
(* Price resolution without a fetch *)

\* the price the priority order gives: fresh cache entry, else persisted
\* price, else the weighted average cost
ByPriority(cache, persisted, clock, key, avg_cost) ==
    IF key \in DOMAIN cache /\ clock - cache[key].timestamp < 300
    THEN cache[key].price
    ELSE IF key \in DOMAIN persisted THEN persisted[key]
    ELSE avg_cost

\* a run of calculate_unrealized_gains_losses without a fetch is in progress
NoFetchRun == pc = "unrealized" /\ ~args.fetch_current_prices

\* PortfolioService has returned from a call without a fetch
PsNoFetchDone ==
    pc = "idle" /\ result # NoResult /\ args.fn = "ps_unrealized"
    /\ ~args.fetch_current_prices

\* C11: without a fetch, the current_price of every position is the cached
\* price if the symbol has a cache entry younger than 300 seconds, else the
\* persisted price of the symbol if there is one, else the weighted average
\* cost; in calculate_unrealized_gains_losses and in PortfolioService.
C11_PriceByPriority ==
    /\ NoFetchRun =>
          \A i \in 1..Len(ur.unrealized_positions) :
              LET position == ur.unrealized_positions[i]
              IN  position.current_price =
                      ByPriority(price_cache, stock_prices, now,
                                 position.symbol, position.avg_cost)
    /\ PsNoFetchDone =>
          \A i \in 1..Len(result.positions) :
              LET position == result.positions[i]
              IN  position.current_price =
                      ByPriority(args.env.price_cache, args.env.stock_prices,
                                 args.env.now, position.symbol, position.avg_cost)

\* a position priced from a fresh cache entry that differs from the
\* persisted price
C11_Witness ==
    /\ NoFetchRun
    /\ Len(ur.unrealized_positions) = 1
    /\ "A" \in DOMAIN price_cache /\ now - price_cache["A"].timestamp < 300
    /\ "A" \in DOMAIN stock_prices /\ stock_prices["A"] # price_cache["A"].price
    /\ ur.unrealized_positions[1].current_price = price_cache["A"].price

----------------------------------------------------------------------------
(* No price can be resolved *)

\* neither the cache nor stock_prices has an entry for the symbol: no fetch
\* succeeded (a successful fetch fills the cache) and nothing was persisted
Unpriced(symbol) ==
    StripUpper(symbol) \notin DOMAIN price_cache /\ symbol \notin DOMAIN stock_prices

\* the symbols of the table that still have open quantity
OpenSymbols ==
    {sym \in Symbols :
        QGt(QSub(QSum([i \in 1..Len(transactions) |->
                        IF transactions[i].Type = "Trade" /\ transactions[i].Symbol = sym
                           /\ transactions[i].Action = "BUY_TO_OPEN"
                        THEN QAbs(OrZero(transactions[i].Quantity)) ELSE QZero]),
                  QSum([i \in 1..Len(transactions) |->
                        IF transactions[i].Type = "Trade" /\ transactions[i].Symbol = sym
                           /\ transactions[i].Action = "SELL_TO_CLOSE"
                        THEN QAbs(OrZero(transactions[i].Quantity)) ELSE QZero])),
            QZero)}

----------------------------------------------------------------------------
(* Dividends: the allocator and both valuators over tables with dividends,
   withholding and closes *)

\* a position in A opened and closed in the actions of app.py and in those
\* of PortfolioService, with a dividend, a withholding (negative Value), a
\* cash row without sub-type and a deposit
DivKinds ==
    {<<"Trade", "A", "BUY_TO_OPEN", QI(1)>>, <<"Trade", "A", "BUY_TO_OPEN", QI(2)>>,
     <<"Trade", "A", "SELL_TO_CLOSE", QI(1)>>, <<"Trade", "A", "SELL_TO_CLOSE", QI(2)>>,
     <<"Trade", "A", "BUY", QI(2)>>, <<"Trade", "A", "SELL", QI(1)>>,
     <<"Money Movement", "A", "Dividend", QI(6)>>,
     <<"Money Movement", "A", "Dividend", QI(-3)>>,
     <<"Money Movement", "A", None, QI(6)>>,
     <<"Money Movement", "A", "Deposit", QI(6)>>}

\* Buy 100, Dividend +50, Sell 40
DividendExample ==
    <<TradeRow(1, "A", "BUY_TO_OPEN", QI(100)),
      CashRow(2, "A", "Dividend", QI(50)),
      TradeRow(3, "A", "SELL_TO_CLOSE", QI(40))>>

\* the example, or any table of at most MaxTrans rows in ascending Date order
InitDiv ==
    /\ \/ transactions = DividendExample
       \/ \E n \in 0..MaxTrans : \E k \in [1..n -> DivKinds] :
             transactions = [i \in 1..n |-> RowOf(i, k[i])]
    /\ exchange_rates = FullRates
    /\ stock_prices = <<>>
    /\ price_cache = <<>>
    /\ now = 0
    /\ quote = NoQuote
    /\ db_up = TRUE
    /\ host = "app"
    /\ ps_price_cache = <<>>
    /\ pc = "idle"
    /\ args = NoArgs
    /\ rg = NoLocals
    /\ dv = NoLocals
    /\ ur = NoLocals
    /\ close_open_qty = QZero
    /\ unmatched = <<>>
    /\ result = NoResult
    /\ history = <<>>
    /\ threads = <<>>
    /\ written = {}

NextDiv ==
    \/ CallUnrealized(None, FALSE)
    \/ UnrealizedSteps
    \/ ReturnUnrealized
    \/ CallPortfolioService(FALSE)

SpecDiv == InitDiv /\ [][NextDiv]_vars

\* the allocator is about to process a dividend row
DividendRow ==
    /\ pc = "dividends" /\ dv.pc = "trans" /\ dv.t < Len(dv.rows)
    /\ dv.rows[dv.t + 1].Type = "Money Movement"
    /\ dv.rows[dv.t + 1].Sub_Type \in {"Dividend", None}

TotalShares(lots) == QSum([i \in 1..Len(lots) |-> lots[i].quantity])
TotalGross(lots) == QSum([i \in 1..Len(lots) |-> lots[i].gross_dividends])
TotalTax(lots) == QSum([i \in 1..Len(lots) |-> lots[i].source_tax])

----------------------------------------------------------------------------
(* Dividends of closed units *)

\* the allocator's while loop is about to take units from the oldest lot
DivClosing == pc = "dividends" /\ dv.pc = "while" /\ DivWhile(dv)

\* the allocator has summed up the only symbol of the example
DividendExampleDone ==
    /\ transactions = DividendExample
    /\ pc = "dividends" /\ dv.pc = "symbols" /\ dv.sym = 1

\* C14: a close that leaves q of the Q units of a lot multiplies the lot's
\* gross_dividends and source_tax by q / Q; a close that takes the whole lot
\* removes the lot with its dividends; the other lots are unchanged. After
\* Buy 100, Dividend +50, Sell 40 the one lot holds 60 units with
\* gross_dividends 30.
C14_ClosedUnitsLoseDividends ==
    /\ [][DivClosing =>
            LET lot == dv.share_lots[1]
                Q0 == lot.quantity
                q == QSub(Q0, dv.remaining_to_sell)
            IN  IF QLe(Q0, dv.remaining_to_sell)
                THEN dv'.share_lots = Tail(dv.share_lots)
                ELSE /\ Len(dv'.share_lots) = Len(dv.share_lots)
                     /\ dv'.share_lots[1].quantity = q
                     /\ dv'.share_lots[1].gross_dividends =
                            QMul(lot.gross_dividends, QDiv(q, Q0))
                     /\ dv'.share_lots[1].source_tax =
                            QMul(lot.source_tax, QDiv(q, Q0))
                     /\ Tail(dv'.share_lots) = Tail(dv.share_lots)]_vars
    /\ [](DividendExampleDone =>
            /\ Len(dv.share_lots) = 1
            /\ dv.share_lots[1].quantity = QI(60)
            /\ dv.share_lots[1].gross_dividends = QI(30)
            /\ dv.dividend_dict[1].gross_dividends = QI(30))

\* the example has been summed up with 30 of the 50 left on 60 units
C14_Witness ==
    /\ DividendExampleDone
    /\ dv.share_lots[1].quantity = QI(60)
    /\ dv.share_lots[1].gross_dividends = QI(30)
    /\ dv.dividend_dict[1].net_dividends = QI(30)

----------------------------------------------------------------------------
(* Net dividends of a position *)

\* get_net_dividends_by_symbol run to its return
RECURSIVE DivRun(_, _)
DivRun(table, d) ==
    IF d.pc = "return" THEN d.dividend_dict ELSE DivRun(table, DivStep(table, d))

\* the table with the opens and closes of PortfolioService (BUY, SELL)
\* written as those of the allocator, and every other trade left out
AsOpenClose(table) ==
    [i \in 1..Len(table) |->
        IF table[i].Type # "Trade" THEN table[i]
        ELSE IF table[i].Action = "BUY" THEN [table[i] EXCEPT !.Action = "BUY_TO_OPEN"]
        ELSE IF table[i].Action = "SELL" THEN [table[i] EXCEPT !.Action = "SELL_TO_CLOSE"]
        ELSE [table[i] EXCEPT !.Action = "OTHER"]]

\* the allocator has summed up a symbol
DivSummed == pc = "dividends" /\ dv.pc = "symbols" /\ dv.sym > 0

\* PortfolioService has returned
PsDone == pc = "idle" /\ result # NoResult /\ args.fn = "ps_unrealized"

\* C15: the net_dividends of a position is the gross dividends less the
\* withholding of the lots still open, without what was allocated to units
\* closed since; in calculate_unrealized_gains_losses and in
\* PortfolioService.
C15_NetDividendsOfOpenLots ==
    /\ DivSummed =>
          NetDividendsOf(dv.dividend_dict, dv.symbols[dv.sym])
              = QSub(TotalGross(dv.share_lots), TotalTax(dv.share_lots))
    /\ pc = "unrealized" =>
          \A i \in 1..Len(ur.unrealized_positions) :
              ur.unrealized_positions[i].net_dividends
                  = NetDividendsOf(ur.dividend_data, ur.unrealized_positions[i].symbol)
    /\ PsDone =>
          \A i \in 1..Len(result.positions) :
              result.positions[i].net_dividends
                  = NetDividendsOf(DivRun(AsOpenClose(transactions),
                                          DivEntry(AsOpenClose(transactions))),
                                   result.positions[i].symbol)

----------------------------------------------------------------------------
(* Realized gains by category, and the two-lot scenario *)

\* long positions in a stock (A), an option (B) and an ETF (C)
GainKinds ==
    {<<"Trade", "A", "BUY_TO_OPEN", QI(1)>>, <<"Trade", "A", "BUY_TO_OPEN", QI(2)>>,
     <<"Trade", "A", "SELL_TO_CLOSE", QI(1)>>,
     <<"Trade", "B", "BUY_TO_OPEN", QI(1)>>, <<"Trade", "B", "SELL_TO_CLOSE", QI(1)>>,
     <<"Trade", "C", "BUY_TO_OPEN", QI(1)>>, <<"Trade", "C", "SELL_TO_CLOSE", QI(1)>>}

\* a trade without fees at a given price
FreeTrade(ts, sym, action, qty, price) ==
    [TradeRow(ts, sym, action, qty) EXCEPT
        !.Average_Price = price,
        !.Total = IF action = "BUY_TO_OPEN" THEN QSub(QZero, QMul(qty, price))
                  ELSE QMul(qty, price),
        !.Fees = QZero]

\* Buy 50 @ 10 (day 1), Buy 50 @ 12 (day 2), Sell 70 @ 20 (day 3)
ScenarioB ==
    <<FreeTrade(1, "A", "BUY_TO_OPEN", QI(50), QI(10)),
      FreeTrade(3, "A", "BUY_TO_OPEN", QI(50), QI(12)),
      FreeTrade(5, "A", "SELL_TO_CLOSE", QI(70), QI(20))>>

\* Scenario B, or any table of at most MaxGainRows rows in ascending Date order
InitGains ==
    /\ \/ transactions = ScenarioB
       \/ \E n \in 0..MaxGainRows : \E k \in [1..n -> GainKinds] :
             transactions = [i \in 1..n |-> RowOf(i, k[i])]
    /\ exchange_rates = FullRates
    /\ stock_prices = <<>>
    /\ price_cache = <<>>
    /\ now = 0
    /\ quote = NoQuote
    /\ db_up = TRUE
    /\ host = "app"
    /\ ps_price_cache = <<>>
    /\ pc = "idle"
    /\ args = NoArgs
    /\ rg = NoLocals
    /\ dv = NoLocals
    /\ ur = NoLocals
    /\ close_open_qty = QZero
    /\ unmatched = <<>>
    /\ result = NoResult
    /\ history = <<>>
    /\ threads = <<>>
    /\ written = {}

NextGains ==
    \/ CallRealized(None, None)
    \/ RealizedSteps
    \/ ReturnRealized

SpecGains == InitGains /\ [][NextGains]_vars

\* the sum of |gain_loss| over the matches of the given categories that are
\* gains (gain_loss > 0) or losses (gain_loss <= 0)
Bucket(txs, cats, gains) ==
    LET sel == SelectSeq(txs, LAMBDA tx : tx.asset_category \in cats
                                          /\ (QGt(tx.gain_loss, QZero) <=> gains))
    IN  QSum([i \in 1..Len(sel) |-> QAbs(sel[i].gain_loss)])

\* the running totals of a pass in progress, or the returned result
Totals ==
    IF pc = "realized" THEN rg
    ELSE IF result # NoResult /\ args.fn = "realized" THEN result
    ELSE NoResult

----------------------------------------------------------------------------
(* Scenario B: a close across two lots *)

\* the matcher has finished Scenario B
ScenarioBDone ==
    /\ transactions = ScenarioB
    /\ pc = "idle" /\ result # NoResult /\ args.fn = "realized"

\* x is v to the cent
Approx(x, v) == QLe(QAbs(QSub(x, v)), Q(1, 200))

\* the open lots of A that the pass leaves behind
ScenarioBLeft ==
    /\ transactions = ScenarioB
    /\ pc = "realized" /\ rg.pc = "return"

\* Scenario B as the spec words it: proceeds 714.29 and 285.71, gains 214.29
\* and 45.71, total 260.00
C17_ScenarioBAsWorded ==
    ScenarioBDone =>
        LET txs == result.detailed_transactions
        IN  /\ Len(txs) = 2
            /\ txs[1].quantity = QI(50) /\ txs[1].cost_basis = QI(500)
            /\ Approx(txs[1].proceeds, Q(71429, 100))
            /\ Approx(txs[1].gain_loss, Q(21429, 100))
            /\ txs[2].quantity = QI(20) /\ txs[2].cost_basis = QI(240)
            /\ Approx(txs[2].proceeds, Q(28571, 100))
            /\ Approx(txs[2].gain_loss, Q(4571, 100))
            /\ Approx(result.net_gain_loss, QI(260))

\* C17: for Buy 50 @ 10 (day 1), Buy 50 @ 12 (day 2), Sell 70 @ 20 (day 3)
\* the matcher emits exactly two matches in this order: 50 units of lot 1
\* with cost basis 500, proceeds 1000 and gain 500, then 20 units of lot 2
\* with cost basis 240, proceeds 400 and gain 160; the total realized gain
\* is 660 and 30 units of lot 2 remain open.
C17_ScenarioB ==
    /\ ScenarioBDone =>
          LET txs == result.detailed_transactions
          IN  /\ Len(txs) = 2
              /\ txs[1].quantity = QI(50) /\ txs[1].buy_date = 1
              /\ txs[1].cost_basis = QI(500)
              /\ txs[1].proceeds = QI(1000) /\ txs[1].gain_loss = QI(500)
              /\ txs[2].quantity = QI(20) /\ txs[2].buy_date = 3
              /\ txs[2].cost_basis = QI(240)
              /\ txs[2].proceeds = QI(400) /\ txs[2].gain_loss = QI(160)
              /\ result.net_gain_loss = QI(660)
    /\ ScenarioBLeft =>
          /\ Len(rg.buys) = 1
          /\ HeadBuy(rg).date = 3
          /\ HeadBuy(rg).quantity = QI(30)

\* Scenario B has been matched and returned
C17_Witness ==
    /\ ScenarioBDone
    /\ Len(result.detailed_transactions) = 2
    /\ result.net_gain_loss = QI(660)

----------------------------------------------------------------------------
(* Conversion to EUR and back *)

\* a conversion of a non-zero amount has returned, for a date with a rate
Converted ==
    /\ args.fn = "convert" /\ result # NoResult
    /\ args.usd_amount # Null /\ args.usd_amount # QZero
    /\ get_exchange_rate(exchange_rates, args.date_str) # Null

\* the distance in USD between the converted amount taken back at the rate
\* of the date and the amount converted
BackError ==
    QAbs(QSub(QMul(result.eur, get_exchange_rate(exchange_rates, args.date_str)),
              args.usd_amount))

----------------------------------------------------------------------------
(* The matcher and the structure it is given *)

\* the matcher is at its return statement
MatcherDone == pc = "realized" /\ rg.pc = "return"

\* quantity, total_cost and fees of every lot of a grouped structure
LotFields(groups) ==
    [g \in 1..Len(groups) |->
        [b \in 1..Len(groups[g].buys) |->
            <<groups[g].buys[b].quantity, groups[g].buys[b].total_cost,
              groups[g].buys[b].fees>>]]

\* C19: the matcher leaves the grouped structure it is given unchanged:
\* quantity, total_cost and fees of every entry of data['buys'] are after the
\* call what they were before it, and a second call on the same structure
\* returns the same matches and totals.
C19_MatcherLeavesInput ==
    /\ pc = "realized" => LotFields(rg.symbol_transactions) = LotFields(OrigGroups)
    /\ MatcherDone =>
          GainsResult(FifoRun(exchange_rates, FifoEntry(rg.symbol_transactions)))
              = GainsResult(rg)

----------------------------------------------------------------------------
(* Quantities of the queued lots *)

\* 0 < quantity <= original quantity
InRange(quantity, original) == QGt(quantity, QZero) /\ QLe(quantity, original)

\* the quantity of the opening row dated d
OpenedQty(d) ==
    LET i == CHOOSE j \in 1..Len(transactions) : transactions[j].Date = d
    IN  QAbs(OrZero(transactions[i].Quantity))

\* C20: at every point of the realized matcher, of the unrealized valuator
\* and of the dividend allocator, every lot in the queue of the current
\* symbol has 0 < quantity <= its original quantity, lots opened by a row
\* with a null quantity included.
C20_QueuedLotsInRange ==
    /\ (pc = "realized" /\ rg.sym > 0 /\ rg.pc # "return") =>
          \A q \in 1..Len(rg.buys) :
              InRange(rg.symbol_transactions[rg.sym].buys[rg.buys[q]].quantity,
                      OrigGroups[rg.sym].buys[rg.buys[q]].quantity)
    /\ (pc = "unrealized" /\ ur.sym > 0) =>
          \A q \in 1..Len(ur.buys) :
              InRange(ur.symbol_holdings[ur.sym].buys[ur.buys[q]].quantity,
                      OrigHoldings[ur.sym].buys[ur.buys[q]].quantity)
    /\ (pc = "dividends" /\ dv.pc \in {"trans", "while"}) =>
          \A i \in 1..Len(dv.share_lots) :
              InRange(dv.share_lots[i].quantity, OpenedQty(dv.share_lots[i].date))

----------------------------------------------------------------------------
(* Cost basis of a lot *)

\* the cost basis of the matches drawn so far from the lot of a symbol
\* opened on a date
DrawnCost(key, date) ==
    LET sel == SelectSeq(rg.detailed_transactions,
                         LAMBDA tx : tx.symbol = key /\ tx.buy_date = date)
    IN  QSum([i \in 1..Len(sel) |-> sel[i].cost_basis])

\* conservation for the lots of the current symbol that satisfy a condition
\* on the lot as it was opened
Conserved(Lot(_)) ==
    (pc = "realized" /\ rg.sym > 0 /\ rg.pc # "return") =>
        \A k \in 1..Len(OrigGroups[rg.sym].buys) :
            LET orig == OrigGroups[rg.sym].buys[k]
                cur == rg.symbol_transactions[rg.sym].buys[k]
            IN  Lot(orig) =>
                    QAdd(DrawnCost(rg.symbol_transactions[rg.sym].key, orig.date),
                         IF Queued(rg.buys, k) THEN QAdd(cur.total_cost, cur.fees)
                         ELSE QZero)
                        = QAdd(orig.total_cost, orig.fees)

AnyLot(lot) == TRUE
PositiveLot(lot) == QGt(lot.quantity, QZero)

----------------------------------------------------------------------------
(* Open lots of the allocator and of the valuator *)

\* the share lots get_net_dividends_by_symbol holds when it sums a symbol up
RECURSIVE DivLotsOf(_, _, _)
DivLotsOf(table, d, symbol) ==
    IF d.pc = "return" THEN <<>>
    ELSE IF d.pc = "symbols" /\ d.sym > 0 /\ d.symbols[d.sym] = symbol
    THEN d.share_lots
    ELSE DivLotsOf(table, DivStep(table, d), symbol)

\* the FIFO pass of the valuator has finished the current symbol
HoldPassDone == pc = "unrealized" /\ ur.sym > 0 /\ ur.pc = "while" /\ ~HoldWhile(ur)

\* C22: for every symbol the lots left at the end of
\* get_net_dividends_by_symbol are, as a sequence of (open date, remaining
\* quantity), the lots left by the FIFO pass of
\* calculate_unrealized_gains_losses.
C22_SameOpenLots ==
    HoldPassDone =>
        LET data == ur.symbol_holdings[ur.sym]
            held == [i \in 1..Len(ur.buys) |->
                       <<data.buys[ur.buys[i]].date, data.buys[ur.buys[i]].quantity>>]
            lots == DivLotsOf(transactions, DivEntry(transactions), data.key)
        IN  held = [i \in 1..Len(lots) |-> <<lots[i].date, lots[i].quantity>>]

----------------------------------------------------------------------------
(* Which cash rows touch the dividends of a lot *)

\* the allocator is about to process a Money Movement row
CashRowNext ==
    /\ pc = "dividends" /\ dv.pc = "trans" /\ dv.t < Len(dv.rows)
    /\ dv.rows[dv.t + 1].Type = "Money Movement"

LotDividends(lots) ==
    [i \in 1..Len(lots) |-> <<lots[i].gross_dividends, lots[i].source_tax>>]

\* C23: in get_net_dividends_by_symbol a Money Movement row whose sub-type
\* is not Dividend, whether another sub-type or none at all, leaves the
\* gross_dividends and source_tax of every lot unchanged, and so does a
\* dividend that arrives while no lot is open.
C23_OnlyDividendsChangeLots ==
    [][CashRowNext =>
        LET row == dv.rows[dv.t + 1]
        IN  (row.Sub_Type # "Dividend" \/ dv.share_lots = <<>>) =>
               LotDividends(dv'.share_lots) = LotDividends(dv.share_lots)]_vars

----------------------------------------------------------------------------
(* Expired cache entries *)

\* the cache entry of the symbol is 300 seconds old or older
Expired(symbol) ==
    /\ StripUpper(symbol) \in DOMAIN price_cache
    /\ now - price_cache[StripUpper(symbol)].timestamp >= cache_timeout

\* C24: a position whose symbol has a cache entry aged 300 seconds or more
\* is never priced from that entry, whether the fetch was requested and
\* failed or was not requested (a fetch that succeeds replaces the entry):
\* its current_price is the persisted price if there is one, else the
\* weighted average cost.
C24_ExpiredEntrySkipped ==
    pc = "unrealized" =>
        \A i \in 1..Len(ur.unrealized_positions) :
            LET position == ur.unrealized_positions[i]
                persisted == get_last_downloaded_price(stock_prices, position.symbol)
            IN  Expired(position.symbol) =>
                    position.current_price =
                        IF persisted # Null THEN persisted ELSE position.avg_cost

----------------------------------------------------------------------------
(* Concurrent requests on the price cache.  Each request runs in a thread
   of its own; a step is one access to the shared dictionary.  No code
   removes an entry or assigns to a field of a stored entry. *)

Threads == {1, 2}
CacheKeys == {"A", "B"}
Fetched == {QI(20), QI(30)}

NoEntry == [price |-> Null, timestamp |-> 0 - 1]

Resting ==
    [pc |-> "idle", cache_key |-> "A", current_time |-> 0,
     cached_data |-> NoEntry, timestamp |-> 0 - 1, seen |-> NoEntry]

engine == <<pc, args, rg, dv, ur, close_open_qty, unmatched, result, history>>

\* the dictionary the process works on
Cache == IF host = "app" THEN price_cache ELSE ps_price_cache

\* cache[cache_key] = {'price': price, 'timestamp': timestamp}
StoreEntry(cache, cache_key, price, timestamp) ==
    IF cache_key \in DOMAIN cache
    THEN [cache EXCEPT ![cache_key] = [price |-> price, timestamp |-> timestamp]]
    ELSE cache @@ (cache_key :> [price |-> price, timestamp |-> timestamp])

\* variant of ReadPrice: the price is read from the dictionary again
ReadPriceFromCache(cache, local) == cache[local.cache_key].price

\* cached_data['price']
ReadPrice(cache, local) == local.cached_data.price

\* no fresh entry: app.py goes on to fetch, PortfolioService to the
\* persisted price; the locals read so far are dead
Miss(local) ==
    IF host = "app"
    THEN [Resting EXCEPT !.pc = "fetch", !.cache_key = local.cache_key,
                         !.current_time = local.current_time]
    ELSE [Resting EXCEPT !.pc = "return", !.cache_key = local.cache_key]

\* a request for the price of a symbol arrives: current_time = time.time()
ThreadBegin(t, key) ==
    /\ threads[t].pc = "idle"
    /\ threads' = [threads EXCEPT ![t] = [Resting EXCEPT !.pc = "check", !.cache_key = key,
                                                        !.current_time = now]]
    /\ UNCHANGED <<tables, prices, world, engine, written>>

\* if cache_key in _price_cache: cached_data = _price_cache[cache_key]
ThreadCheck(t) ==
    /\ threads[t].pc = "check"
    /\ threads' = [threads EXCEPT ![t] =
          LET local == threads[t]
          IN  IF local.cache_key \in DOMAIN Cache
              THEN [local EXCEPT !.cached_data = Cache[local.cache_key],
                                 !.pc = "compare"]
              ELSE Miss(local)]
    /\ UNCHANGED <<tables, prices, world, engine, written>>

\* if current_time - cached_data['timestamp'] < _cache_timeout
ThreadCompare(t) ==
    /\ threads[t].pc = "compare"
    /\ threads' = [threads EXCEPT ![t] =
          LET read == [threads[t] EXCEPT !.timestamp = threads[t].cached_data.timestamp]
          IN  IF read.current_time - read.timestamp < cache_timeout
              THEN [read EXCEPT !.pc = "price"]
              ELSE Miss(read)]
    /\ UNCHANGED <<tables, prices, world, engine, written>>

\* return cached_data['price']
ThreadPrice(t) ==
    /\ threads[t].pc = "price"
    /\ threads' = [threads EXCEPT ![t] =
          [Resting EXCEPT !.seen = [price |-> ReadPrice(Cache, threads[t]),
                                    timestamp |-> threads[t].timestamp],
                          !.cache_key = threads[t].cache_key,
                          !.pc = "return"]]
    /\ UNCHANGED <<tables, prices, world, engine, written>>

\* _fetch_price_finnhub: the provider answers and the entry is stored with
\* the current_time of the request, or the request fails
ThreadFetch(t) ==
    /\ host = "app"
    /\ threads[t].pc = "fetch"
    /\ \/ \E price \in Fetched :
             /\ Cardinality(written) < MaxWrites
             /\ price_cache' = StoreEntry(price_cache, threads[t].cache_key, price,
                                          threads[t].current_time)
             /\ written' = written \cup
                   {<<threads[t].cache_key,
                      [price |-> price, timestamp |-> threads[t].current_time]>>}
       \/ UNCHANGED <<price_cache, written>>
    /\ threads' = [threads EXCEPT ![t] = [Resting EXCEPT !.pc = "return",
                                                        !.cache_key = threads[t].cache_key]]
    /\ UNCHANGED <<tables, stock_prices, ps_price_cache, world, engine>>

\* PortfolioService.cache_price(symbol, price)
ThreadCachePrice(t, key) ==
    /\ host = "portfolio"
    /\ threads[t].pc = "idle"
    /\ Cardinality(written) < MaxWrites
    /\ \E price \in Fetched :
          /\ ps_price_cache' = StoreEntry(ps_price_cache, key, price, now)
          /\ written' = written \cup {<<key, [price |-> price, timestamp |-> now]>>}
    /\ UNCHANGED <<tables, stock_prices, price_cache, world, engine, threads>>

\* the request is answered
ThreadReturn(t) ==
    /\ threads[t].pc = "return"
    /\ threads' = [threads EXCEPT ![t] = Resting]
    /\ UNCHANGED <<tables, prices, world, engine, written>>

\* time passes while the requests run, half a cache lifetime at a time,
\* until the first entry stored has expired
CacheTick ==
    /\ now < cache_timeout
    /\ now' = now + cache_timeout \div 2
    /\ UNCHANGED <<tables, prices, quote, db_up, host, engine, threads, written>>

InitCache ==
    /\ transactions = <<>>
    /\ exchange_rates = FullRates
    /\ stock_prices = <<>>
    /\ price_cache = <<>>
    /\ now = 0
    /\ quote = NoQuote
    /\ db_up = TRUE
    /\ host \in {"app", "portfolio"}
    /\ ps_price_cache = <<>>
    /\ pc = "idle"
    /\ args = NoArgs
    /\ rg = NoLocals
    /\ dv = NoLocals
    /\ ur = NoLocals
    /\ close_open_qty = QZero
    /\ unmatched = <<>>
    /\ result = NoResult
    /\ history = <<>>
    /\ threads = [t \in Threads |-> Resting]
    /\ written = {}

NextCache ==
    \/ \E t \in Threads, key \in CacheKeys : ThreadBegin(t, key)
    \/ \E t \in Threads : ThreadCheck(t)
    \/ \E t \in Threads : ThreadCompare(t)
    \/ \E t \in Threads : ThreadPrice(t)
    \/ \E t \in Threads : ThreadFetch(t)
    \/ \E t \in Threads, key \in CacheKeys : ThreadCachePrice(t, key)
    \/ \E t \in Threads : ThreadReturn(t)
    \/ CacheTick

SpecCache == InitCache /\ [][NextCache]_vars

\* the entry under a key, NoEntry if there is none
EntryOf(cache, key) == IF key \in DOMAIN cache THEN cache[key] ELSE NoEntry

\* C25: under every interleaving of concurrent requests, the (price,
\* timestamp) pair a reader returns for a symbol, and every entry of the
\* cache, is a pair that one single write stored for that symbol; and a
\* step changes the entry of at most one symbol, in app.py that of the
\* thread whose fetch stored an entry.
C25_AtomicPerKey ==
    /\ [](/\ \A t \in Threads :
                threads[t].seen # NoEntry
                    => <<threads[t].cache_key, threads[t].seen>> \in written
          /\ \A key \in DOMAIN Cache : <<key, Cache[key]>> \in written)
    /\ [][\A key \in CacheKeys :
             EntryOf(Cache', key) # EntryOf(Cache, key) =>
                /\ \A other \in CacheKeys \ {key} :
                      EntryOf(Cache', other) = EntryOf(Cache, other)
                /\ host = "app" =>
                      \E t \in Threads : /\ threads[t].pc = "fetch"
                                         /\ threads[t].cache_key = key
                                         /\ threads'[t].pc = "return"]_vars

\* a reader returned the pair of the first write after a second write had
\* replaced the entry under the same key, while the other key kept its entry
C25_Witness ==
    \E t \in Threads :
        /\ threads[t].pc = "return" /\ threads[t].seen # NoEntry
        /\ threads[t].cache_key \in DOMAIN Cache
        /\ Cache[threads[t].cache_key] # threads[t].seen
        /\ Cache[threads[t].cache_key].price # threads[t].seen.price
        /\ Cache[threads[t].cache_key].timestamp # threads[t].seen.timestamp

----------------------------------------------------------------------------
(* Rounding of EUR totals: the dashboard over any table of rates *)

\* the wire deposits of the dashboard: one or two on one day, of seven
\* cents or 100
WireFunds ==
    UNION {[1..n -> {date_str} \X {Q(7, 100), QI(100)}] : date_str \in Days, n \in 1..2}

\* index(): wire_funds_total_usd and wire_funds_total_eur, each deposit
\* converted at the rate of its date
WireFundsTotal(wire) ==
    /\ pc = "idle"
    /\ args' = [fn |-> "index", wire |-> wire]
    /\ result' =
          [returned |-> TRUE,
           wire_funds_total_usd |-> QSum([i \in 1..Len(wire) |-> OrZero(wire[i][2])]),
           wire_funds_total_eur |->
               QSum([i \in 1..Len(wire) |->
                       OrZero(convert_usd_to_eur(exchange_rates, OrZero(wire[i][2]),
                                                 wire[i][1]))])]
    /\ UNCHANGED <<threads, written, tables, prices, world, pc, rg, dv, ur, close_open_qty,
                   unmatched, history>>

InitIndex ==
    /\ transactions = <<>>
    /\ \E days \in SUBSET Days : exchange_rates \in [days -> Rates]
    /\ stock_prices = <<>>
    /\ price_cache = <<>>
    /\ now = 0
    /\ quote = NoQuote
    /\ db_up = TRUE
    /\ host = "app"
    /\ ps_price_cache = <<>>
    /\ pc = "idle"
    /\ args = NoArgs
    /\ rg = NoLocals
    /\ dv = NoLocals
    /\ ur = NoLocals
    /\ close_open_qty = QZero
    /\ unmatched = <<>>
    /\ result = NoResult
    /\ history = <<>>
    /\ threads = <<>>
    /\ written = {}

NextIndex == \E wire \in WireFunds : WireFundsTotal(wire)

SpecIndex == InitIndex /\ [][NextIndex]_vars

\* the dashboard total has been computed and every deposit has a rate
WireTotalled ==
    /\ args.fn = "index" /\ result # NoResult
    /\ \A i \in 1..Len(args.wire) : get_exchange_rate(exchange_rates, args.wire[i][1]) # Null

\* C26: EUR amounts are rounded to 2 decimals only once, at the final
\* aggregation: the wire-funds total in EUR of the dashboard, shown with 2
\* decimals, is the rounding of the sum of the unrounded amount / rate of
\* the deposits.
C26_RoundedOnce ==
    WireTotalled =>
        Round2(result.wire_funds_total_eur) =
            Round2(QSum([i \in 1..Len(args.wire) |->
                           QDiv(args.wire[i][2],
                                get_exchange_rate(exchange_rates, args.wire[i][1]))]))

----------------------------------------------------------------------------
(* The FIFO loops of the services, step by step.  PortfolioService.
   _process_fifo_matching and TaxService._calculate_symbol_realized_gains
   run the same loops over the entries of _separate_buy_sell_transactions;
   rg holds their locals while pc = "service". *)

Services == {"portfolio", "tax"}

\* the locals at the start of the loops; queue is remaining_buys (a copy of
\* buys) in PortfolioService and buys itself in TaxService, as indices
ServiceEntry(service, txs) ==
    [pc |-> "sells", service |-> service, buys |-> PsBuys(txs),
     queue |-> [i \in 1..Len(PsBuys(txs)) |-> i], sells |-> PsSells(txs), s |-> 0,
     remaining_to_sell |-> QZero, realized_transactions |-> <<>>]

\* while remaining_to_sell > 0 and buys
ServiceWhile(st) == QGt(st.remaining_to_sell, QZero) /\ st.queue # <<>>

\* the entry TaxService appends to realized_transactions
ServiceMatch(st, sold_quantity, cost_basis) ==
    LET buy == st.buys[st.queue[1]]
        sell == st.sells[st.s]
        proceeds == QMul(sold_quantity, sell.price)
    IN  [buy_date |-> buy.date, sell_date |-> sell.date, quantity |-> sold_quantity,
         cost_basis |-> cost_basis, proceeds |-> proceeds,
         gain_loss_eur |-> QSub(proceeds, cost_basis)]

\* "Complete position sold"
ServiceFull(st) ==
    LET buy == st.buys[st.queue[1]]
        popped == [st EXCEPT !.remaining_to_sell = QSub(@, buy.quantity),
                             !.queue = Tail(@)]
    IN  IF st.service = "portfolio" THEN popped
        ELSE [popped EXCEPT !.realized_transactions =
                 Append(@, ServiceMatch(st, buy.quantity, QAdd(buy.total_cost, buy.fees)))]

\* variant of ServicePartial: the close is not marked as filled
ServicePartialKeepsClose(st) ==
    [st EXCEPT !.buys[st.queue[1]].quantity = QSub(@, st.remaining_to_sell)]

\* "Partial position sold"
ServicePartial(st) ==
    LET k == st.queue[1]
        buy == st.buys[k]
        quantity == QSub(buy.quantity, st.remaining_to_sell)
        kept == QDiv(quantity, QAdd(quantity, st.remaining_to_sell))
        proportion == QDiv(st.remaining_to_sell, buy.quantity)
    IN  IF st.service = "portfolio"
        THEN [st EXCEPT !.buys[k] = [buy EXCEPT !.quantity = quantity,
                                                !.total_cost = QMul(kept, @),
                                                !.fees = QMul(kept, @)],
                        !.remaining_to_sell = QZero]
        ELSE [st EXCEPT !.realized_transactions =
                            Append(@, ServiceMatch(st, st.remaining_to_sell,
                                       QMul(QAdd(buy.total_cost, buy.fees), proportion))),
                        !.buys[k] = [buy EXCEPT !.quantity = quantity,
                                                !.total_cost = QMul(@, QSub(QOne, proportion)),
                                                !.fees = QMul(@, QSub(QOne, proportion))],
                        !.remaining_to_sell = QZero]

\* the service is handed the trades of a symbol
CallService(service, symbol) ==
    /\ pc = "idle"
    /\ \E i \in 1..Len(transactions) :
          transactions[i].Type = "Trade" /\ transactions[i].Symbol = symbol
    /\ pc' = "service"
    /\ args' = [fn |-> "service", service |-> service, symbol |-> symbol]
    /\ rg' = ServiceEntry(service, SelectSeq(PsTradeTransactions(transactions),
                                             LAMBDA t : t.symbol = symbol))
    /\ result' = NoResult
    /\ UNCHANGED <<threads, written, tables, prices, world, dv, ur, close_open_qty,
                   unmatched, history>>

\* for sell in sells: remaining_to_sell = sell['quantity']
ServiceNextSell ==
    /\ pc = "service" /\ rg.pc = "sells" /\ rg.s < Len(rg.sells)
    /\ rg' = [rg EXCEPT !.s = @ + 1, !.remaining_to_sell = rg.sells[rg.s + 1].quantity,
                        !.pc = "while"]
    /\ UNCHANGED <<threads, written, tables, prices, world, pc, args, dv, ur, close_open_qty,
                   unmatched, result, history>>

\* the while loop consumes the whole head lot
ServiceMatchFull ==
    /\ pc = "service" /\ rg.pc = "while" /\ ServiceWhile(rg)
    /\ QLe(rg.buys[rg.queue[1]].quantity, rg.remaining_to_sell)
    /\ rg' = ServiceFull(rg)
    /\ UNCHANGED <<threads, written, tables, prices, world, pc, args, dv, ur, close_open_qty,
                   unmatched, result, history>>

\* the while loop shrinks the head lot
ServiceMatchPartial ==
    /\ pc = "service" /\ rg.pc = "while" /\ ServiceWhile(rg)
    /\ ~QLe(rg.buys[rg.queue[1]].quantity, rg.remaining_to_sell)
    /\ rg' = ServicePartial(rg)
    /\ UNCHANGED <<threads, written, tables, prices, world, pc, args, dv, ur, close_open_qty,
                   unmatched, result, history>>

\* the while loop ends
ServiceEndWhile ==
    /\ pc = "service" /\ rg.pc = "while" /\ ~ServiceWhile(rg)
    /\ rg' = [rg EXCEPT !.pc = "sells"]
    /\ UNCHANGED <<threads, written, tables, prices, world, pc, args, dv, ur, close_open_qty,
                   unmatched, result, history>>

\* return remaining_buys, or the realized transactions
ReturnService ==
    /\ pc = "service" /\ rg.pc = "sells" /\ rg.s = Len(rg.sells)
    /\ result' = [returned |-> TRUE,
                  remaining_buys |-> [i \in 1..Len(rg.queue) |-> rg.buys[rg.queue[i]]],
                  transactions |-> rg.realized_transactions]
    /\ pc' = "idle"
    /\ rg' = NoLocals
    /\ UNCHANGED <<threads, written, tables, prices, world, args, dv, ur, close_open_qty,
                   unmatched, history>>

ServiceSteps ==
    \/ ServiceNextSell
    \/ ServiceMatchFull
    \/ ServiceMatchPartial
    \/ ServiceEndWhile

----------------------------------------------------------------------------
(* Termination of the FIFO loops *)

\* lots of 1, 2 and no units and closes of 1 and 2 units, a short position
\* of 1 unit opened and closed, and lots and closes in the actions of the
\* services
LoopKinds ==
    {<<"Trade", "A", "BUY_TO_OPEN", QI(1)>>, <<"Trade", "A", "BUY_TO_OPEN", QI(2)>>,
     <<"Trade", "A", "BUY_TO_OPEN", Null>>,
     <<"Trade", "A", "SELL_TO_CLOSE", QI(1)>>, <<"Trade", "A", "SELL_TO_CLOSE", QI(2)>>,
     <<"Trade", "A", "SELL_TO_OPEN", QI(1)>>, <<"Trade", "A", "BUY_TO_CLOSE", QI(1)>>,
     <<"Trade", "A", "BUY", QI(2)>>, <<"Trade", "A", "SELL", QI(1)>>}

InitLoops ==
    /\ \E n \in 0..MaxTrans : \E k \in [1..n -> LoopKinds] :
          transactions = [i \in 1..n |-> RowOf(i, k[i])]
    /\ exchange_rates = FullRates
    /\ stock_prices = <<>>
    /\ price_cache = <<>>
    /\ now = 0
    /\ quote = NoQuote
    /\ db_up = TRUE
    /\ host = "app"
    /\ ps_price_cache = <<>>
    /\ pc = "idle"
    /\ args = NoArgs
    /\ rg = NoLocals
    /\ dv = NoLocals
    /\ ur = NoLocals
    /\ close_open_qty = QZero
    /\ unmatched = <<>>
    /\ result = NoResult
    /\ history = <<>>
    /\ threads = <<>>
    /\ written = {}

NextLoops ==
    \/ CallRealized(None, None)
    \/ RealizedSteps
    \/ ReturnRealized
    \/ CallUnrealized(None, FALSE)
    \/ UnrealizedSteps
    \/ ReturnUnrealized
    \/ \E service \in Services, symbol \in Symbols : CallService(service, symbol)
    \/ ServiceSteps
    \/ ReturnService

SpecLoops == InitLoops /\ [][NextLoops]_vars

\* the remaining close quantity and the queue of the while loop being run
LoopState(p, r, d, u) ==
    IF p = "realized" /\ r.pc = "while"
    THEN [remaining |-> r.remaining_sell_qty, lots |-> Len(r.buys)]
    ELSE IF p = "service" /\ r.pc = "while"
    THEN [remaining |-> r.remaining_to_sell, lots |-> Len(r.queue)]
    ELSE IF p = "dividends" /\ d.pc = "while"
    THEN [remaining |-> d.remaining_to_sell, lots |-> Len(d.share_lots)]
    ELSE IF p = "unrealized" /\ u.pc = "while"
    THEN [remaining |-> u.remaining_to_sell, lots |-> Len(u.buys)]
    ELSE [remaining |-> QZero, lots |-> 0]

\* an iteration of a while loop: the loop was and is being run
Iteration ==
    /\ LoopState(pc, rg, dv, ur).lots > 0
    /\ QGt(LoopState(pc, rg, dv, ur).remaining, QZero)
    /\ pc' = pc
    /\ (pc = "realized" \/ pc = "service") => rg'.pc = "while"
    /\ pc = "dividends" => dv'.pc = "while"
    /\ pc = "unrealized" => ur'.pc = "while"

\* a bound on the symbols, the closes and the lots of a table
Size == Len(transactions) + 1

\* the steps a while loop has left: two per lot and the exit
Inner(lots, running) == IF running THEN 2 * lots + 2 ELSE 1

PerClose == 2 * Size + 4
PerSymbol == (Size + 1) * PerClose
PerCall == (Size + 1) * PerSymbol

\* a bound on the steps the running call has left, 0 when none is running
StepsLeft(p, r, d, u) ==
    IF p = "realized"
    THEN LET symbols == (Len(r.symbol_transactions) - r.sym) * PerSymbol
             closes == (Len(r.symbol_transactions[r.sym].sells) - r.sell) * PerClose
         IN  IF r.pc = "return" THEN 1
             ELSE IF r.pc = "symbols" THEN 2 + symbols
             ELSE IF r.pc = "sells" THEN 3 + symbols + closes
             ELSE 4 + symbols + closes + Inner(Len(r.buys), FifoWhile(r))
    ELSE IF p = "service"
    THEN LET closes == (Len(r.sells) - r.s) * PerClose
         IN  IF r.pc = "sells" THEN 2 + closes
             ELSE 3 + closes + Inner(Len(r.queue), ServiceWhile(r))
    ELSE IF p = "dividends"
    THEN LET symbols == (Len(d.symbols) - d.sym) * PerSymbol
             rows == (Len(d.rows) - d.t) * PerClose
         IN  IF d.pc = "return" THEN PerCall + 1
             ELSE IF d.pc = "symbols" THEN PerCall + 2 + symbols
             ELSE IF d.pc = "trans" THEN PerCall + 3 + symbols + rows
             ELSE PerCall + 4 + symbols + rows + Inner(Len(d.share_lots), DivWhile(d))
    ELSE IF p = "unrealized"
    THEN LET symbols == (Len(u.symbol_holdings) - u.sym) * PerSymbol
         IN  IF u.pc = "symbols" THEN 2 + symbols
             ELSE 3 + symbols + Inner(Len(u.buys), HoldWhile(u))
    ELSE 0

\* C27: every FIFO matching loop terminates on every finite table of lots
\* and closes with non-negative quantities: the number of steps a running
\* call has left is bounded by a natural number that every step lowers,
\* and every iteration of an inner while loop either removes one lot from
\* the queue or sets the remaining close quantity to 0.
C27_LoopsTerminate ==
    /\ [][pc # "idle" =>
             /\ StepsLeft(pc', rg', dv', ur') < StepsLeft(pc, rg, dv, ur)
             /\ StepsLeft(pc', rg', dv', ur') >= 0]_vars
    /\ [][Iteration =>
             \/ LoopState(pc', rg', dv', ur').lots = LoopState(pc, rg, dv, ur).lots - 1
             \/ LoopState(pc', rg', dv', ur').remaining = QZero]_vars

\* the tax service returned after a loop that shrank a lot of 2 units and
\* then removed it
C27_Witness ==
    /\ pc = "idle" /\ args.fn = "service" /\ args.service = "tax"
    /\ result # NoResult
    /\ Len(result.transactions) = 2
    /\ result.transactions[1].quantity = QI(1)
    /\ result.transactions[1].cost_basis = result.transactions[2].cost_basis
    /\ result.transactions[2].quantity = QI(1)
    /\ result.remaining_buys = <<>>

----------------------------------------------------------------------------
(* Gains and losses in both currencies *)

\* C28: every Match is classified the same way in both currencies: one
\* with a gain in USD (gain_loss > 0) is summed into the EUR gains
\* (gain_loss_eur > 0) and one with a loss in USD (gain_loss < 0) into the
\* EUR losses (gain_loss_eur < 0).
C28_SameBucketInBothCurrencies ==
    MatcherDone =>
        \A i \in 1..Len(rg.detailed_transactions) :
            LET tx == rg.detailed_transactions[i]
            IN  /\ QGt(tx.gain_loss, QZero) => QGt(tx.gain_loss_eur, QZero)
                /\ QLt(tx.gain_loss, QZero) => QLt(tx.gain_loss_eur, QZero)

----------------------------------------------------------------------------
(* Quantity of a symbol: matched, held and opened *)

\* the quantity of the first n rows that are trades of the symbol with the action
ActionQty(n, symbol, action) ==
    QSum([i \in 1..n |->
            IF /\ transactions[i].Type = "Trade" /\ transactions[i].Symbol = symbol
               /\ transactions[i].Action = action
            THEN QAbs(OrZero(transactions[i].Quantity)) ELSE QZero])

\* at no point of the history has more been closed than was open, long or short
NoOversell(symbol) ==
    \A n \in 0..Len(transactions) :
        /\ QLe(ActionQty(n, symbol, "SELL_TO_CLOSE"), ActionQty(n, symbol, "BUY_TO_OPEN"))
        /\ QLe(ActionQty(n, symbol, "BUY_TO_CLOSE"), ActionQty(n, symbol, "SELL_TO_OPEN"))

\* calculate_unrealized_gains_losses is at its return statement
ValuatorDone == pc = "unrealized" /\ ur.pc = "symbols" /\ ur.sym = Len(ur.symbol_holdings)

\* C29: for every symbol of a full-history stream without oversell, the
\* quantities of the Matches of calculate_realized_gains_losses(year=None)
\* and the quantity of the symbol's Position (0 if it has none) add up to
\* the total quantity of its BUY_TO_OPEN transactions, whatever the mix of
\* BUY_TO_OPEN, SELL_TO_CLOSE, SELL_TO_OPEN and BUY_TO_CLOSE.
C29_QuantityConserved ==
    ValuatorDone =>
        \A symbol \in Symbols :
            LET matches == SelectSeq(
                    calculate_realized_gains_losses(transactions, exchange_rates,
                                                    None, None).detailed_transactions,
                    LAMBDA tx : tx.symbol = symbol)
                held == SelectSeq(ur.unrealized_positions,
                                  LAMBDA position : position.symbol = symbol)
            IN  NoOversell(symbol) =>
                    QAdd(QSum([i \in 1..Len(matches) |-> matches[i].quantity]),
                         QSum([i \in 1..Len(held) |-> held[i].quantity]))
                      = ActionQty(Len(transactions), symbol, "BUY_TO_OPEN")

----------------------------------------------------------------------------
(* The two open-lot passes over the same lots and closes *)

\* a lot of the given quantity, the i-th of its list: 10 a unit, fees of 1
LotOf(i, quantity) ==
    [date |-> i, quantity |-> quantity, price |-> QI(10),
     total_cost |-> QMul(quantity, QI(10)), fees |-> QOne]

LotLists ==
    UNION {{[i \in 1..n |-> LotOf(i, f[i])] : f \in [1..n -> {QI(1), QI(2), QI(3)}]}
           : n \in 0..MaxTrans}

\* the Quantity column of the closes; validate_transaction_data admits no
\* negative Quantity
CloseLists == UNION {[1..n -> {QZero, QI(1), QI(2)}] : n \in 0..MaxTrans}

\* the entries _separate_buy_sell_transactions builds for the closes
PsCloses(sells) == [i \in 1..Len(sells) |-> [quantity |-> sells[i]]]

\* only the first close is counted
TotalSoldFirst(sells) == IF sells = <<>> THEN QZero ELSE QAbs(OrZero(sells[1]))

\* symbol_holdings[symbol_key]['total_sold'] += abs(trans_dict['Quantity'] or 0)
TotalSold(sells) == QSum([i \in 1..Len(sells) |-> QAbs(OrZero(sells[i]))])

\* the while loop of calculate_unrealized_gains_losses run to its end
RECURSIVE HoldPass(_)
HoldPass(st) ==
    IF ~HoldWhile(st) THEN st
    ELSE IF QLe(HoldHead(st).quantity, st.remaining_to_sell)
         THEN HoldPass(HoldSellFull(st))
         ELSE HoldPass(HoldSellPartial(st))

\* the lots a pass leaves, with the fields both implementations keep
Remaining(lots, queue) ==
    [i \in 1..Len(queue) |->
        [quantity |-> lots[queue[i]].quantity, total_cost |-> lots[queue[i]].total_cost,
         fees |-> lots[queue[i]].fees]]

\* PortfolioService._process_fifo_matching(buys, sells)
ProcessFifoMatching ==
    /\ pc = "lots" /\ rg = NoLocals
    /\ rg' = [pc |-> "return"] @@ PsProcessFifoMatching(args.buys, PsCloses(args.sells))
    /\ UNCHANGED <<threads, written, tables, prices, world, pc, args, dv, ur,
                   close_open_qty, unmatched, result, history>>

\* app.py: the closes summed into total_sold, then the FIFO pass
FifoPass ==
    /\ pc = "lots" /\ ur = NoLocals
    /\ ur' = HoldPass(HoldNextSymbol(
                [pc |-> "symbols",
                 symbol_holdings |-> <<[key |-> "A", buys |-> args.buys,
                                        total_sold |-> TotalSold(args.sells),
                                        asset_category |-> "Stock"]>>,
                 sym |-> 0, buys |-> <<>>, remaining_to_sell |-> QZero,
                 unrealized_positions |-> <<>>,
                 total_unrealized_value |-> QZero, total_cost_basis |-> QZero,
                 dividend_data |-> <<>>]))
    /\ UNCHANGED <<threads, written, tables, prices, world, pc, args, rg, dv,
                   close_open_qty, unmatched, result, history>>

InitLots ==
    /\ transactions = <<>>
    /\ exchange_rates = <<>>
    /\ stock_prices = <<>>
    /\ price_cache = <<>>
    /\ now = 0
    /\ quote = NoQuote
    /\ db_up = TRUE
    /\ host = "app"
    /\ ps_price_cache = <<>>
    /\ pc = "lots"
    /\ \E buys \in LotLists, sells \in CloseLists :
          args = [fn |-> "lots", buys |-> buys, sells |-> sells]
    /\ rg = NoLocals
    /\ dv = NoLocals
    /\ ur = NoLocals
    /\ close_open_qty = QZero
    /\ unmatched = <<>>
    /\ result = NoResult
    /\ history = <<>>
    /\ threads = <<>>
    /\ written = {}

NextLots == ProcessFifoMatching \/ FifoPass

SpecLots == InitLots /\ [][NextLots]_vars

\* both passes have run over the lots and closes
BothPassed == pc = "lots" /\ rg # NoLocals /\ ur # NoLocals

============================================================================
